---- MODULE Spec2Model ----
(***************************************************************************)
(* Model of the nlopt-wasm sampling solvers of knitsketching:              *)
(*   libs/nlopt-wasm/global_sampling.cpp  (flow-graph solver, aliasing)    *)
(*   libs/nlopt-wasm/local_sampling.cpp   (linear sequence, shaping F)     *)
(*   libs/nlopt-wasm/sr_sampling.cpp      (short-row / wale solver)        *)
(*                                                                         *)
(* Each file is its own wasm unit with one process-wide instance; the      *)
(* variable "solver" says which unit a behaviour is about, and the static  *)
(* variables the three files share by name (cdata, nvars, max_eval, ...)   *)
(* are modelled once.                                                      *)
(*                                                                         *)
(* std::vector<double> is a function over 0..n-1 (the source's indices);   *)
(* the index lists inp_edges, out_edges, pos, neg are sequences, so the    *)
(* source's list[0] is Head(list).  Doubles are integers: every input the  *)
(* model draws is an integer and F = 2, so floor, ceil and the powers of   *)
(* F are exact.                                                            *)
(***************************************************************************)
EXTENDS Integers, Sequences, FiniteSets, TLC

VARIABLES
    solver,          \* "global" | "local" | "shortrow": the compilation unit
    \* inputs
    cdata, nodes, ns_start, ns_end,
    \* options of the shortrow objective (sr_sampling.cpp:17-18)
    circular, simp_L2,
    \* aliasing / reduction data (global_sampling.cpp:66-79)
    aliases, aliased, reduced, aliasing_level, redToAlias, aliasToRed, rvars,
    \* nlopt config
    use_constraints, max_eval, gaussian_start, global_shaping,
    \* outputs
    nvars, ngrad,
    \* the call in progress and the nlopt::opt object it built
    pc, opt, rc,
    \* history (not program state): what the optimizer was given and did
    hist

vars == <<solver, cdata, nodes, ns_start, ns_end, circular, simp_L2,
          aliases, aliased, reduced, aliasing_level, redToAlias, aliasToRed, rvars,
          use_constraints, max_eval, gaussian_start, global_shaping,
          nvars, ngrad, pc, opt, rc, hist>>

----------------------------------------------------------------------------
(* Bounds of the model *)

\* optimizer callbacks (objective / constraint evaluations) per solve
MaxEvals == 1
\* longest input / output list of the nodes SpecAlias draws, and the
\* target it sets on every edge
AliasDeg == 2
AliasTarget == 4
\* edges, nodes and list length of the graphs the setters build in SpecLife
LifeEdges == 2
LifeNodes == 1
LifeDeg == 1

----------------------------------------------------------------------------
(* Program constants *)

\* std::numeric_limits<index_t>::max(): the all-ones word of index_t, written
\* as the signed integer of the same bits; no valid index equals it
NoRed == -1
\* enum AliasingLevel
NONE == 0
TRIVIAL == 1
BASIC == 2
COMPLEX == 3
\* static size_t max_eval = 1e3
DefaultMaxEval == 1000
\* opt.set_maxeval(1e3) in the global and local solve
EvalCap == 1000
\* opt.set_maxeval(1e2) in the shortrow solve
EvalCapSR == 100
\* double min_bound = 1e3 (start of the minimum search in the global solve)
MinBoundStart == 1000
\* std::max(2.0, ...): the floor of every lower bound
BoundFloor == 2
\* std::min(1e4, ...): the ceiling of the local solver's upper bounds
BoundCeil == 10000
\* static double F = 2 (local shaping factor; iF = 1/F)
F == 2

----------------------------------------------------------------------------
(* Vectors *)

Vec(n, Op(_)) == [i \in 0..(n - 1) |-> Op(i)]
Size(v) == Cardinality(DOMAIN v)
Zeros(n) == [i \in 0..(n - 1) |-> 0]
Max2(a, b) == IF a >= b THEN a ELSE b
Min2(a, b) == IF a <= b THEN a ELSE b
SeqSet(s) == {s[k] : k \in 1..Len(s)}

RECURSIVE Pow(_, _)
Pow(b, e) == IF e = 0 THEN 1 ELSE b * Pow(b, e - 1)

----------------------------------------------------------------------------
(* struct Node, struct VarAlias *)

\* a value-initialized Node, as nodes.resize() makes it
NewNode == [index |-> 0, simple |-> FALSE, inp_edges |-> <<>>, out_edges |-> <<>>]

\* a Node whose has_interface_constraint forgets the simple flag
has_interface_constraint_sides(node) ==
    Len(node.inp_edges) > 0 /\ Len(node.out_edges) > 0

has_interface_constraint(node) ==
    /\ Len(node.inp_edges) > 0
    /\ Len(node.out_edges) > 0
    /\ ~node.simple

has_range_constraint(node) == node.simple

\* a value-initialized VarAlias, as aliases.resize() makes it
NewAlias == [index |-> 0, pos |-> <<>>, neg |-> <<>>, min_bound |-> 0]

empty(alias) == alias.pos = <<>> /\ alias.neg = <<>>

is_valid(alias) == alias.neg = <<>> \/ alias.pos # <<>>

has_constraint(alias) == Len(alias.neg) > 1

----------------------------------------------------------------------------
(* compute_aliases: the pass over the nodes and the mappings *)

\* VarAlias noAlias; aliases.assign(n, noAlias); aliases[i].index = i.
\* noAlias.min_bound is never initialized and never read before solve
\* writes it; the model holds 0 there.
ResetAliases(n) == Vec(n, LAMBDA i : [NewAlias EXCEPT !.index = i])

\* an iteration that aliases the first output of every interface node to
\* the node's own outputs
AliasNode_self(node, level, st) ==
    IF has_interface_constraint(node)
    THEN [al |-> [st.al EXCEPT ![Head(node.out_edges)].pos = node.out_edges],
          red |-> [st.red EXCEPT ![node.index] = TRUE]]
    ELSE st

\* one iteration of the loop over the nodes: st = [al, red]
AliasNode(node, level, st) ==
    LET num_inp == Len(node.inp_edges)
        num_out == Len(node.out_edges)
        out0 == Head(node.out_edges)
        inp0 == Head(node.inp_edges)
        done(al) == [al |-> al, red |-> [st.red EXCEPT ![node.index] = TRUE]]
    IN  IF st.red[node.index] \/ ~has_interface_constraint(node)
        THEN st
        ELSE IF num_inp = 1 /\ num_out = 1
        THEN done([st.al EXCEPT ![out0].pos = node.inp_edges])
        ELSE IF num_inp = 1 \/ num_out = 1
        THEN IF level < BASIC
             THEN st
             ELSE IF num_inp = 1
             THEN done([st.al EXCEPT ![inp0].pos = node.out_edges])
             ELSE done([st.al EXCEPT ![out0].pos = node.inp_edges])
        ELSE IF level = COMPLEX
        THEN done([st.al EXCEPT ![out0].pos = node.inp_edges,
                                ![out0].neg = st.al[out0].neg \o Tail(node.out_edges)])
        ELSE st

RECURSIVE AliasLoop(_, _, _, _)
AliasLoop(k, nds, level, st) ==
    IF k >= Size(nds) THEN st
    ELSE AliasLoop(k + 1, nds, level, AliasNode(nds[k], level, st))

\* mappings that keep every variable: the identity in both directions
MapLoop_all(k, al, m) ==
    [r2a |-> [i \in 1..Size(al) |-> i - 1], a2r |-> [i \in 1..Size(al) |-> i - 1]]

\* the "create mappings" loop: m = [r2a, a2r] built in alias order
RECURSIVE MapLoop(_, _, _)
MapLoop(k, al, m) ==
    IF k >= Size(al) THEN m
    ELSE LET redIdx == Len(m.r2a)
         IN  IF empty(al[k])
             THEN MapLoop(k + 1, al, [r2a |-> Append(m.r2a, al[k].index),
                                       a2r |-> Append(m.a2r, redIdx)])
             ELSE MapLoop(k + 1, al, [r2a |-> m.r2a,
                                       a2r |-> Append(m.a2r, NoRed)])

\* a pushed-back std::vector as a function over 0..n-1
FromSeq(s) == [i \in 0..(Len(s) - 1) |-> s[i + 1]]

\* a compute_aliases that only sets the flag
compute_aliases_flag(st, nds, level) == [st EXCEPT !.aliased = TRUE]

\* the aliasing state compute_aliases leaves: st has the fields
\* aliases, aliased, reduced, redToAlias, aliasToRed, rvars
compute_aliases(st, nds, level) ==
    IF st.aliased THEN st
    ELSE
    LET al0 == ResetAliases(Size(st.aliases))
        red0 == [i \in DOMAIN st.reduced |-> FALSE]
    IN  IF level = NONE
        THEN [st EXCEPT !.aliases = al0, !.reduced = red0, !.aliased = TRUE]
        ELSE
        LET res == AliasLoop(0, nds, level, [al |-> al0, red |-> red0])
            m == MapLoop(0, res.al, [r2a |-> <<>>, a2r |-> <<>>])
            R == Len(m.r2a)
        IN  [aliases |-> res.al,
             aliased |-> TRUE,
             reduced |-> res.red,
             redToAlias |-> FromSeq(m.r2a),
             aliasToRed |-> FromSeq(m.a2r),
             \* rvars.resize(R): kept entries survive, new ones are 0
             rvars |-> Vec(R, LAMBDA i : IF i \in DOMAIN st.rvars
                                          THEN st.rvars[i] ELSE 0)]

AliasState ==
    [aliases |-> aliases, aliased |-> aliased, reduced |-> reduced,
     redToAlias |-> redToAlias, aliasToRed |-> aliasToRed, rvars |-> rvars]

----------------------------------------------------------------------------
(* Gather / scatter between the reduced and the full variable space *)

\* values an out-of-bounds read of a std::vector<double> can yield: the index
\* NoRed times 8 wraps in the 32-bit address space to the 8 bytes in front of
\* the vector's storage, a heap word that reads as a (near) zero double or as
\* anything else
JunkVals == {0, 99}

\* rns[r], where r may be NoRed (the read is then out of bounds)
ReadAt(rns, r, junk) == IF r \in DOMAIN rns THEN rns[r] ELSE junk

RECURSIVE SumAt(_, _, _, _)
SumAt(idxs, rns, a2r, junk) ==
    IF idxs = <<>> THEN 0
    ELSE ReadAt(rns, a2r[Head(idxs)], junk) + SumAt(Tail(idxs), rns, a2r, junk)

\* a gather that leaves the negative terms out
from_reduced_to_aliases_pos(rns, n, al, a2r, junk) ==
    Vec(n, LAMBDA i :
        IF empty(al[i])
        THEN ReadAt(rns, a2r[i], junk)
        ELSE SumAt(al[i].pos, rns, a2r, junk))

\* from_reduced_to_aliases(rns, ns) for ns of size n: the new ns
from_reduced_to_aliases(rns, n, al, a2r, junk) ==
    Vec(n, LAMBDA i :
        IF empty(al[i])
        THEN ReadAt(rns, a2r[i], junk)
        ELSE SumAt(al[i].pos, rns, a2r, junk) - SumAt(al[i].neg, rns, a2r, junk))

\* set_reduced_from_aliases(ns, rns): the new rns (direct copy, no gather)
set_reduced_from_aliases(ns, rns, r2a) ==
    [i \in DOMAIN rns |-> ns[r2a[i]]]

----------------------------------------------------------------------------
(* Bounds of the global solve (global_sampling.cpp:674-684) *)

\* std::floor(val * 0.5) and std::ceil(val * 2.0) of an integer val
FloorHalf(val) == val \div 2
CeilDouble(val) == 2 * val

RECURSIVE MinBoundLoop(_, _, _)
MinBoundLoop(k, c, acc) ==
    IF k >= Size(c) THEN acc
    ELSE MinBoundLoop(k + 1, c, Min2(acc, FloorHalf(c[k])))

RECURSIVE MaxBoundLoop(_, _, _)
MaxBoundLoop(k, c, acc) ==
    IF k >= Size(c) THEN acc
    ELSE MaxBoundLoop(k + 1, c, Max2(acc, CeilDouble(c[k])))

GlobalMinBound(c) == Max2(BoundFloor, MinBoundLoop(0, c, MinBoundStart))
GlobalMaxBound(c) == MaxBoundLoop(0, c, BoundFloor)

----------------------------------------------------------------------------
(* Bounds and initial point of the local solve (local_sampling.cpp:384-412) *)

\* ns * std::pow(iF, e) with iF = 1/F, compared against 2.0 only: the
\* inputs are powers of F, so the quotient is exact or below 2
TimesPowIF(ns, e) == ns \div Pow(F, e)
TimesPowF(ns, e) == ns * Pow(F, e)

\* lower bounds that keep only the floor
LocalMin_floor(i, n) == BoundFloor

LocalMin(i, n) ==
    LET nss_min == Max2(BoundFloor, TimesPowIF(ns_start, i + 1))
        nse_min == Max2(BoundFloor, TimesPowIF(ns_end, n - i))
    IN  Max2(nss_min, nse_min)

LocalMax(i, n) ==
    LET nss_max == Min2(BoundCeil, TimesPowF(ns_start, i + 1))
        nse_max == Min2(BoundCeil, TimesPowF(ns_end, n - i))
    IN  Min2(nss_max, nse_max)

\* "initial solution within box": if / else-if, in the source's order
LocalInit(cw, lo, hi) ==
    IF cw < lo THEN lo
    ELSE IF cw > hi THEN hi
    ELSE cw

----------------------------------------------------------------------------
(* Objective and constraints of the global solver.  Gradients are held in
   tenths (w_s = 0.1 is 1 tenth), objective values in tenths as well. *)

\* static double w_c = 1 and w_s = 0.1, in tenths
w_c == 10
w_s == 1
\* the constant 1 a constraint writes into a gradient, in tenths
One == 10

loss(x) == x * x

RECURSIVE SumIdx(_, _)
SumIdx(idxs, ns) ==
    IF idxs = <<>> THEN 0 ELSE ns[Head(idxs)] + SumIdx(Tail(idxs), ns)

\* for(idx : idxs) grad[idx] += d
RECURSIVE AddAt(_, _, _)
AddAt(grad, idxs, d) ==
    IF idxs = <<>> THEN grad
    ELSE AddAt([grad EXCEPT ![Head(idxs)] = @ + d], Tail(idxs), d)

\* for(idx : idxs) grad[idx] = v
RECURSIVE SetAt(_, _, _)
SetAt(grad, idxs, v) ==
    IF idxs = <<>> THEN grad
    ELSE SetAt([grad EXCEPT ![Head(idxs)] = v], Tail(idxs), v)

RECURSIVE CourseError(_, _)
CourseError(k, ns) ==
    IF k >= Size(cdata) THEN 0
    ELSE loss(ns[k] - cdata[k]) + CourseError(k + 1, ns)

\* the "node errors" loop of global_sampling: acc = [Es, grad];
\* the gradient is touched only when one was asked for (wg)
RECURSIVE NodeErrors(_, _, _, _)
NodeErrors(k, ns, wg, acc) ==
    IF k >= Size(nodes) THEN acc
    ELSE LET node == nodes[k]
         IN  IF ~node.simple \/ node.inp_edges = <<>> \/ node.out_edges = <<>>
             THEN NodeErrors(k + 1, ns, wg, acc)
             ELSE LET diff == SumIdx(node.inp_edges, ns) - SumIdx(node.out_edges, ns)
                      s_grad == w_s * 2 * diff
                      g1 == AddAt(acc.grad, node.inp_edges, s_grad)
                      g2 == AddAt(g1, node.out_edges, 0 - s_grad)
                  IN  NodeErrors(k + 1, ns, wg,
                          [Es |-> acc.Es + loss(diff),
                           grad |-> IF wg THEN g2 ELSE acc.grad])

\* an objective of the course accuracy alone
global_sampling_course(ns, grad, wg) ==
    [val |-> CourseError(0, ns) * w_c,
     grad |-> IF wg
              THEN [i \in DOMAIN grad |->
                       IF i < Size(cdata) THEN w_c * 2 * (ns[i] - cdata[i])
                       ELSE grad[i]]
              ELSE grad]

\* global_sampling(ns, grad): [val, grad]; grad is the buffer passed in and
\* wg says whether it is non-empty
global_sampling(ns, grad, wg) ==
    LET g0 == IF wg
              THEN [i \in DOMAIN grad |->
                       IF i < Size(cdata) THEN w_c * 2 * (ns[i] - cdata[i])
                       ELSE grad[i]]
              ELSE grad
        res == NodeErrors(0, ns, wg, [Es |-> 0, grad |-> g0])
    IN  [val |-> CourseError(0, ns) * w_c + res.Es * w_s, grad |-> res.grad]

\* global_interface_constraint(ns, grad, &node): [val, grad]
global_interface_constraint(ns, grad, wg, node) ==
    LET g1 == SetAt(grad, node.inp_edges, One)
        g2 == SetAt(g1, node.out_edges, 0 - One)
    IN  [val |-> SumIdx(node.inp_edges, ns) - SumIdx(node.out_edges, ns),
         grad |-> IF wg THEN g2 ELSE grad]

\* std::abs
Abs(x) == IF x < 0 THEN 0 - x ELSE x

\* static double constraint_tol = 1e-1, in tenths
constraint_tol == 1

\* wdata[k], the weight set_wdata gives every node; iwdata[k] = 1.0 / value
\* is held in tenths
RangeWeight == 2
wdata == RangeWeight
iwdata == One \div RangeWeight

\* global_urange_constraint(ns, nograd, &node), in tenths:
\* ns[inp] - ns[out] * wdata[node.index]
global_urange_constraint(ns, node) ==
    One * ns[Head(node.inp_edges)] - One * ns[Head(node.out_edges)] * wdata

\* global_lrange_constraint(ns, nograd, &node), in tenths:
\* ns[out] * iwdata[node.index] - ns[inp]
global_lrange_constraint(ns, node) ==
    ns[Head(node.out_edges)] * iwdata - One * ns[Head(node.inp_edges)]

\* global_constraint_max_error(ns), in tenths
RECURSIVE MaxErrorLoop(_, _, _)
MaxErrorLoop(k, ns, max_err) ==
    IF k >= Size(nodes) THEN max_err
    ELSE LET node == nodes[k]
         IN  IF has_interface_constraint(node)
             THEN MaxErrorLoop(k + 1, ns,
                    Max2(max_err,
                         Abs(One * global_interface_constraint(ns, Zeros(0), FALSE, node).val)))
             ELSE IF global_shaping /\ has_range_constraint(node)
             THEN MaxErrorLoop(k + 1, ns,
                    Max2(Max2(max_err, Abs(global_urange_constraint(ns, node))),
                         Abs(global_lrange_constraint(ns, node))))
             ELSE MaxErrorLoop(k + 1, ns, max_err)

global_constraint_max_error(ns) == MaxErrorLoop(0, ns, 0)

\* get_constraint_max_error()
get_constraint_max_error == global_constraint_max_error(nvars)

\* global_alias_constraint(rns, nograd, &alias), in tenths:
\* min_bound + sum(rns[neg]) - sum(rns[pos])
global_alias_constraint(rns, alias, junk) ==
    One * (alias.min_bound + SumAt(alias.neg, rns, aliasToRed, junk)
                           - SumAt(alias.pos, rns, aliasToRed, junk))

\* rns[r] += d, where r may be NoRed: that write lands in front of the
\* vector's storage and leaves the vector itself as it was
BumpAt(rns, r, d) == IF r \in DOMAIN rns THEN [rns EXCEPT ![r] = @ + d] ELSE rns

RECURSIVE BumpAll(_, _, _, _)
BumpAll(rns, idxs, a2r, d) ==
    IF idxs = <<>> THEN rns
    ELSE BumpAll(BumpAt(rns, a2r[Head(idxs)], d), Tail(idxs), a2r, d)

RECURSIVE ScatterLoop(_, _, _, _, _)
ScatterLoop(k, ns, rns, al, a2r) ==
    IF k >= Size(ns) THEN rns
    ELSE ScatterLoop(k + 1, ns,
            IF empty(al[k])
            THEN BumpAt(rns, a2r[k], ns[k])
            ELSE BumpAll(BumpAll(rns, al[k].pos, a2r, ns[k]),
                         al[k].neg, a2r, 0 - ns[k]),
            al, a2r)

\* the scatter replaced by the direct copy rns[i] = ns[redToAlias[i]]
from_aliases_to_reduced_copy(ns, rns, al, a2r) ==
    [i \in DOMAIN rns |-> ns[redToAlias[i]]]

\* from_aliases_to_reduced(ns, rns) with rnsIsZeroed = false: the new rns
from_aliases_to_reduced(ns, rns, al, a2r) ==
    ScatterLoop(0, ns, [i \in DOMAIN rns |-> 0], al, a2r)

\* global_reduced_sampling(rns, rgrad): what it returns and what it leaves
\* in the static buffers nvars and ngrad; ng is ngrad as the call finds it
global_reduced_sampling(rns, ng, wg, junk) ==
    LET nv == from_reduced_to_aliases(rns, Size(nvars), aliases, aliasToRed, junk)
        res == global_sampling(nv, ng, wg)
    IN  [val |-> res.val,
         rgrad |-> IF wg THEN from_aliases_to_reduced(res.grad, rns, aliases, aliasToRed)
                   ELSE Zeros(0),
         nvars |-> nv,
         ngrad |-> res.grad]

\* global_reduced_constraint(rns, rgrad, &node)
global_reduced_constraint(rns, ng, wg, node, junk) ==
    LET nv == from_reduced_to_aliases(rns, Size(nvars), aliases, aliasToRed, junk)
        res == global_interface_constraint(nv, ng, wg, node)
    IN  [val |-> res.val,
         rgrad |-> IF wg THEN from_aliases_to_reduced(res.grad, rns, aliases, aliasToRed)
                   ELSE Zeros(0),
         nvars |-> nv,
         ngrad |-> res.grad]

----------------------------------------------------------------------------
(* The optimizer (nlopt::opt), consumed by interface.  The record opt is
   what solve configured; the optimizer then calls the registered functions
   back at points of its choice and ends by returning a result or throwing. *)

NoOpt == [n |-> 0, maxeval |-> 0, lb |-> Zeros(0), ub |-> Zeros(0),
          eq |-> <<>>, alias_ineq |-> <<>>, range_ineq |-> <<>>, next_ineq |-> <<>>]

\* nlopt::result values optimize() returns: 1 success, 2 stopval, 3 ftol,
\* 4 xtol, 5 maxeval, 6 maxtime
ReturnCodes == 1..6
\* failures, which optimize() throws: -1 std::runtime_error, -2
\* std::invalid_argument, -3 std::bad_alloc, -4 nlopt::roundoff_limited,
\* -5 nlopt::forced_stop
FailureCodes == {0 - 1, 0 - 2, 0 - 3, 0 - 4, 0 - 5}

OptOutcomes ==
    [kind : {"returned"}, code : ReturnCodes] \cup [kind : {"thrown"}, code : FailureCodes]

NoOutcome == [kind |-> "none", code |-> 0]

\* the points the optimizer visits: corners of the box it was given
OptPoints(o) ==
    { Vec(o.n, LAMBDA i : o.lb[i]),
      Vec(o.n, LAMBDA i : o.ub[i]),
      Vec(o.n, LAMBDA i : IF i = o.n - 1 THEN o.ub[i] ELSE o.lb[i]) }

\* N(0,1) draws of nlopt_nrand, one per solve, as whole numbers
Noise == {0 - 1, 1}

\* hist, about the current (or last) solve:
\*   evals        callbacks made so far
\*   was_aliased  the aliased flag as solve found it
\*   x0           the point handed to opt.optimize
\*   outcome      how opt.optimize ended
\*   last_x       what the optimizer left in the vector it was handed
\*   wrote        the last vector written into nvars while opt.optimize ran,
\*                by the optimizer itself or by a callback's gather
\*   ref_ngrad, same, ref
\*                the reference run: the same solve with the same inputs,
\*                options and seed on a freshly allocated instance, driven by
\*                the same optimizer.  ref_ngrad is its ngrad; same says that
\*                every callback so far returned the same value and gradient
\*                in both runs, so that a deterministic optimizer has made
\*                the same requests; ref is what the reference run returns.
\*   req, resp    the last callback: the function called (and its node or
\*                alias), the point and whether a gradient was asked for,
\*                and the value and gradient handed back
NoWrite == [set |-> FALSE, x |-> Zeros(0)]
NoRef == [rc |-> 0, nvars |-> Zeros(0)]
NoReq == [set |-> FALSE, x |-> Zeros(0), wg |-> FALSE, fn |-> "none", arg |-> 0]
NoResp == [val |-> 0, rgrad |-> Zeros(0)]
NoHist == [evals |-> 0, was_aliased |-> FALSE, x0 |-> Zeros(0),
           outcome |-> NoOutcome, last_x |-> Zeros(0), wrote |-> NoWrite,
           ref_ngrad |-> Zeros(0), same |-> TRUE, ref |-> NoRef,
           req |-> NoReq, resp |-> NoResp]

\* whether some alias refers to an index that is itself aliased away
Dangling(al, a2r) ==
    \E i \in DOMAIN al :
        \E j \in SeqSet(al[i].pos) \cup SeqSet(al[i].neg) : a2r[j] = NoRed

\* what the out-of-bounds reads of a gather can yield (none without Dangling)
Junks == IF Dangling(aliases, aliasToRed) THEN JunkVals ELSE {0}

Reduced == solver = "global" /\ aliasing_level > NONE

\* the vector solve hands to opt.optimize
Buf == IF Reduced THEN rvars ELSE nvars

----------------------------------------------------------------------------
(* reset, allocate and the graph setters of the global solver.  The wasm
   unit is single-threaded: no export runs while solve is inside
   opt.optimize.  Indices are taken in range, as the setters assume. *)

\* std::vector::resize on a list of indices: the prefix stays, new entries
\* are value-initialized
Resize(s, n) == [k \in 1..n |-> IF k <= Len(s) THEN s[k] ELSE 0]

\* reset clears nvars, cdata, aliases, reduced, (i)wdata and nodes; ngrad,
\* rvars and the two mappings are left as they are
reset ==
    /\ pc # "optimizing"
    /\ solver = "global"
    /\ nvars' = Zeros(0)
    /\ cdata' = Zeros(0)
    /\ aliases' = Zeros(0)
    /\ reduced' = Zeros(0)
    /\ nodes' = Zeros(0)
    /\ aliased' = FALSE
    /\ UNCHANGED <<solver, circular, simp_L2,
                   ns_start, ns_end, aliasing_level, redToAlias, aliasToRed,
                   rvars, use_constraints, max_eval, gaussian_start, global_shaping,
                   ngrad, pc, opt, rc, hist>>

allocate(num_edges, num_nodes) ==
    /\ pc # "optimizing"
    /\ solver = "global"
    /\ nvars' = Zeros(num_edges)
    /\ ngrad' = Vec(num_edges, LAMBDA i : IF i \in DOMAIN ngrad THEN ngrad[i] ELSE 0)
    /\ cdata' = Zeros(num_edges)
    /\ aliases' = Vec(num_edges, LAMBDA i : NewAlias)
    /\ nodes' = Vec(num_nodes, LAMBDA i : NewNode)
    /\ reduced' = Vec(num_nodes, LAMBDA i : FALSE)
    /\ aliased' = FALSE
    /\ UNCHANGED <<solver, circular, simp_L2,
                   ns_start, ns_end, aliasing_level, redToAlias, aliasToRed,
                   rvars, use_constraints, max_eval, gaussian_start, global_shaping,
                   pc, opt, rc, hist>>

\* the variables the three node setters leave alone
NodeSetterFrame ==
    UNCHANGED <<solver, circular, simp_L2,
                cdata, ns_start, ns_end, aliases, reduced, aliasing_level,
                redToAlias, aliasToRed, rvars, use_constraints, max_eval,
                gaussian_start, global_shaping, nvars, ngrad, pc, opt, rc, hist>>

allocate_node(index, simple, num_inputs, num_outputs) ==
    /\ pc # "optimizing"
    /\ solver = "global"
    /\ index \in DOMAIN nodes
    /\ nodes' = [nodes EXCEPT ![index] =
                    [index |-> index, simple |-> simple,
                     inp_edges |-> Resize(@.inp_edges, num_inputs),
                     out_edges |-> Resize(@.out_edges, num_outputs)]]
    /\ aliased' = FALSE
    /\ NodeSetterFrame

\* set_node_input without its last line: the edge is stored and the cached
\* aliasing is left marked as up to date
set_node_input_keep(node_index, index, edge_index) ==
    /\ pc # "optimizing"
    /\ solver = "global"
    /\ node_index \in DOMAIN nodes
    /\ index + 1 \in DOMAIN nodes[node_index].inp_edges
    /\ edge_index \in DOMAIN nvars
    /\ nodes' = [nodes EXCEPT ![node_index].inp_edges[index + 1] = edge_index]
    /\ aliased' = aliased
    /\ NodeSetterFrame

set_node_input(node_index, index, edge_index) ==
    /\ pc # "optimizing"
    /\ solver = "global"
    /\ node_index \in DOMAIN nodes
    /\ index + 1 \in DOMAIN nodes[node_index].inp_edges
    /\ edge_index \in DOMAIN nvars
    /\ nodes' = [nodes EXCEPT ![node_index].inp_edges[index + 1] = edge_index]
    /\ aliased' = FALSE
    /\ NodeSetterFrame

set_node_output(node_index, index, edge_index) ==
    /\ pc # "optimizing"
    /\ solver = "global"
    /\ node_index \in DOMAIN nodes
    /\ index + 1 \in DOMAIN nodes[node_index].out_edges
    /\ edge_index \in DOMAIN nvars
    /\ nodes' = [nodes EXCEPT ![node_index].out_edges[index + 1] = edge_index]
    /\ aliased' = FALSE
    /\ NodeSetterFrame

----------------------------------------------------------------------------
(* Option setters *)

MaxEvalVals == {0, 7}

set_max_eval(n) ==
    /\ pc # "optimizing"
    /\ max_eval' = n
    /\ UNCHANGED <<solver, circular, simp_L2,
                   cdata, nodes, ns_start, ns_end, aliases, aliased, reduced,
                   aliasing_level, redToAlias, aliasToRed, rvars, use_constraints,
                   gaussian_start, global_shaping, nvars, ngrad, pc, opt, rc, hist>>

use_noise(noise) ==
    /\ pc # "optimizing"
    /\ gaussian_start' = noise
    /\ UNCHANGED <<solver, circular, simp_L2,
                   cdata, nodes, ns_start, ns_end, aliases, aliased, reduced,
                   aliasing_level, redToAlias, aliasToRed, rvars, use_constraints,
                   max_eval, global_shaping, nvars, ngrad, pc, opt, rc, hist>>

set_use_constraints(u) ==
    /\ pc # "optimizing"
    /\ solver \in {"global", "local"}
    /\ use_constraints' = u
    /\ UNCHANGED <<solver, circular, simp_L2,
                   cdata, nodes, ns_start, ns_end, aliases, aliased, reduced,
                   aliasing_level, redToAlias, aliasToRed, rvars, max_eval,
                   gaussian_start, global_shaping, nvars, ngrad, pc, opt, rc, hist>>

set_global_shaping(gs) ==
    /\ pc # "optimizing"
    /\ solver = "global"
    /\ global_shaping' = gs
    /\ UNCHANGED <<solver, circular, simp_L2,
                   cdata, nodes, ns_start, ns_end, aliases, aliased, reduced,
                   aliasing_level, redToAlias, aliasToRed, rvars, use_constraints,
                   max_eval, gaussian_start, nvars, ngrad, pc, opt, rc, hist>>

set_aliasing_level(level) ==
    /\ pc # "optimizing"
    /\ solver = "global"
    /\ aliasing_level' = level
    /\ aliased' = FALSE
    /\ UNCHANGED <<solver, circular, simp_L2,
                   cdata, nodes, ns_start, ns_end, aliases, reduced,
                   redToAlias, aliasToRed, rvars, use_constraints, max_eval,
                   gaussian_start, global_shaping, nvars, ngrad, pc, opt, rc, hist>>

----------------------------------------------------------------------------
(* solve, up to the call of opt.optimize *)

\* the members of S among 0..n-1, in increasing order
RECURSIVE Asc(_, _, _)
Asc(k, n, S) ==
    IF k >= n THEN <<>>
    ELSE (IF k \in S THEN <<k>> ELSE <<>>) \o Asc(k + 1, n, S)

\* if(max_eval) opt.set_maxeval(max_eval); else opt.set_maxeval(1e3);
eval_cap(me) == IF me # 0 THEN me ELSE EvalCap

\* the shortrow lines without the else branch: no default cap
eval_cap_sr_none(me) == me

\* the same lines of the shortrow solve, whose default is 1e2
eval_cap_sr(me) == IF me # 0 THEN me ELSE EvalCapSR

\* std::max(lo, std::min(hi, v))
Clip(v, lo, hi) == Max2(lo, Min2(hi, v))

\* global: nvars.assign(cdata), then the Gaussian perturbation if asked for
global_initial(c, gs, d, min_bound, max_bound) ==
    [i \in DOMAIN c |-> IF gs THEN Clip(c[i] + d, min_bound, max_bound) ELSE c[i]]

\* local: the clipped guess, then the Gaussian perturbation if asked for
local_initial(c, gs, d, n) ==
    [i \in 0..(n - 1) |->
        LET cw == LocalInit(c[i], LocalMin(i, n), LocalMax(i, n))
        IN  IF gs THEN Clip(cw + d, LocalMin(i, n), LocalMax(i, n)) ELSE cw]

\* shortrow: std::max(0.0, cdata[i]), then the perturbation if asked for
sr_initial(c, gs, d, n) ==
    [i \in 0..(n - 1) |->
        LET v == Max2(0, c[i])
        IN  IF gs THEN Max2(0, v + d) ELSE v]

\* the upper bound nlopt holds when none is set (+HUGE_VAL)
HugeVal == 1000000

\* get_constraints(false, false): { i, NextMin }, { i, NextMax } for i + 1 < N
RECURSIVE NextConstraints(_, _)
NextConstraints(i, N) ==
    IF i + 1 >= N THEN <<>>
    ELSE <<[index |-> i, type |-> "NextMin"], [index |-> i, type |-> "NextMax"]>>
         \o NextConstraints(i + 1, N)

\* local_constraint(ns, nograd, &bound), in halves (iF = 1 / F = 0.5)
local_constraint(ns, bound) ==
    LET i == bound.index
    IN  CASE bound.type = "FirstMin" -> ns_start - F * ns[0]
          [] bound.type = "FirstMax" -> F * (ns[0] - ns_start * F)
          [] bound.type = "NextMin" -> ns[i] - F * ns[i + 1]
          [] bound.type = "NextMax" -> F * (ns[i + 1] - ns[i] * F)
          [] bound.type = "LastMin" -> ns_end - F * ns[i]
          [] bound.type = "LastMax" -> F * (ns[i] - ns_end * F)

solve_global ==
    /\ solver = "global"
    /\ pc # "optimizing"
    /\ \E d \in Noise :
        /\ (~gaussian_start => d = 1)
        /\ LET st == compute_aliases(AliasState, nodes, aliasing_level)
               n == IF aliasing_level = NONE THEN Size(nvars) ELSE Size(st.rvars)
               min_bound == GlobalMinBound(cdata)
               max_bound == GlobalMaxBound(cdata)
               eq == IF use_constraints
                     THEN Asc(0, Size(nodes),
                              {k \in DOMAIN nodes :
                                  /\ has_interface_constraint(nodes[k])
                                  /\ ~st.reduced[nodes[k].index]})
                     ELSE <<>>
               ai == IF use_constraints
                     THEN Asc(0, Size(st.aliases),
                              {k \in DOMAIN st.aliases : has_constraint(st.aliases[k])})
                     ELSE <<>>
               rg == IF global_shaping
                     THEN Asc(0, Size(nodes),
                              {k \in DOMAIN nodes : has_range_constraint(nodes[k])})
                     ELSE <<>>
               nv == global_initial(cdata, gaussian_start, d, min_bound, max_bound)
           IN  /\ aliases' = [k \in DOMAIN st.aliases |->
                                IF use_constraints /\ has_constraint(st.aliases[k])
                                THEN [st.aliases[k] EXCEPT !.min_bound = min_bound]
                                ELSE st.aliases[k]]
               /\ aliased' = st.aliased
               /\ reduced' = st.reduced
               /\ redToAlias' = st.redToAlias
               /\ aliasToRed' = st.aliasToRed
               /\ opt' = [n |-> n, maxeval |-> eval_cap(max_eval),
                          lb |-> Vec(n, LAMBDA i : min_bound),
                          ub |-> Vec(n, LAMBDA i : max_bound),
                          eq |-> eq, alias_ineq |-> ai, range_ineq |-> rg,
                          next_ineq |-> <<>>]
               /\ nvars' = nv
               /\ rvars' = IF aliasing_level > NONE
                           THEN set_reduced_from_aliases(nv, st.rvars, st.redToAlias)
                           ELSE st.rvars
               /\ hist' = [NoHist EXCEPT !.x0 = IF aliasing_level > NONE
                                                THEN rvars' ELSE nvars',
                                         !.was_aliased = aliased,
                                         !.ref_ngrad = Zeros(Size(ngrad))]
    /\ rc' = 0
    /\ pc' = "optimizing"
    /\ UNCHANGED <<solver, circular, simp_L2,
                   cdata, nodes, ns_start, ns_end, aliasing_level,
                   use_constraints, max_eval, gaussian_start, global_shaping, ngrad>>

solve_local ==
    /\ solver = "local"
    /\ pc # "optimizing"
    /\ \E d \in Noise :
        /\ (~gaussian_start => d = 1)
        /\ LET n == Size(nvars)
           IN  /\ opt' = [n |-> n, maxeval |-> eval_cap(max_eval),
                          lb |-> Vec(n, LAMBDA i : LocalMin(i, n)),
                          ub |-> Vec(n, LAMBDA i : LocalMax(i, n)),
                          eq |-> <<>>, alias_ineq |-> <<>>, range_ineq |-> <<>>,
                          next_ineq |-> IF use_constraints
                                        THEN NextConstraints(0, Size(cdata))
                                        ELSE <<>>]
               /\ nvars' = local_initial(cdata, gaussian_start, d, n)
               /\ hist' = [NoHist EXCEPT !.x0 = nvars', !.ref_ngrad = Zeros(Size(ngrad))]
    /\ rc' = 0
    /\ pc' = "optimizing"
    /\ UNCHANGED <<solver, circular, simp_L2,
                   cdata, nodes, ns_start, ns_end, aliases, aliased, reduced,
                   aliasing_level, redToAlias, aliasToRed, rvars, use_constraints,
                   max_eval, gaussian_start, global_shaping, ngrad>>

solve_sr ==
    /\ solver = "shortrow"
    /\ pc # "optimizing"
    /\ \E d \in Noise :
        /\ (~gaussian_start => d = 1)
        /\ LET n == Size(nvars)
           IN  /\ opt' = [n |-> n, maxeval |-> eval_cap_sr(max_eval),
                          lb |-> Vec(n, LAMBDA i : 0),
                          ub |-> Vec(n, LAMBDA i : HugeVal),
                          eq |-> <<>>, alias_ineq |-> <<>>, range_ineq |-> <<>>,
                          next_ineq |-> <<>>]
               /\ nvars' = sr_initial(cdata, gaussian_start, d, n)
               /\ hist' = [NoHist EXCEPT !.x0 = nvars', !.ref_ngrad = Zeros(Size(ngrad))]
    /\ rc' = 0
    /\ pc' = "optimizing"
    /\ UNCHANGED <<solver, circular, simp_L2,
                   cdata, nodes, ns_start, ns_end, aliases, aliased, reduced,
                   aliasing_level, redToAlias, aliasToRed, rvars, use_constraints,
                   max_eval, gaussian_start, global_shaping, ngrad>>

----------------------------------------------------------------------------
(* The optimizer's callbacks while opt.optimize runs *)

\* hist after a callback of the reduced formulation (fn, for the node arg)
\* at x (wg: with a gradient): r is what the call returned and left, rr the
\* same call in the reference run
AfterEval(fn, arg, x, wg, r, rr) ==
    [hist EXCEPT !.evals = @ + 1,
                 !.req = [set |-> TRUE, x |-> x, wg |-> wg, fn |-> fn, arg |-> arg],
                 !.resp = [val |-> r.val, rgrad |-> r.rgrad],
                 !.wrote = [set |-> TRUE, x |-> r.nvars],
                 !.ref_ngrad = rr.ngrad,
                 !.same = @ /\ r.val = rr.val /\ r.rgrad = rr.rgrad]

\* the objective: global_sampling when unreduced (it reads the optimizer's
\* own vectors and leaves the statics alone), global_reduced_sampling when
\* reduced (it gathers into nvars and, with a gradient, writes ngrad)
OptEvalObjective ==
    /\ pc = "optimizing"
    /\ solver = "global"
    /\ hist.evals < MaxEvals
    /\ \E x \in OptPoints(opt), wg \in BOOLEAN, junk \in Junks :
        IF Reduced
        THEN LET r == global_reduced_sampling(x, ngrad, wg, junk)
                 rr == global_reduced_sampling(x, hist.ref_ngrad, wg, junk)
             IN  /\ nvars' = r.nvars
                 /\ ngrad' = r.ngrad
                 /\ hist' = AfterEval("objective", 0, x, wg, r, rr)
        ELSE /\ hist' = [hist EXCEPT !.evals = @ + 1]
             /\ UNCHANGED <<nvars, ngrad>>
    /\ UNCHANGED <<solver, circular, simp_L2,
                   cdata, nodes, ns_start, ns_end, aliases, aliased, reduced,
                   aliasing_level, redToAlias, aliasToRed, rvars, use_constraints,
                   max_eval, gaussian_start, global_shaping, pc, opt, rc>>

\* an interface equality registered by solve: global_interface_constraint
\* when unreduced, global_reduced_constraint when reduced
OptEvalConstraint ==
    /\ pc = "optimizing"
    /\ solver = "global"
    /\ hist.evals < MaxEvals
    /\ \E k \in 1..Len(opt.eq), x \in OptPoints(opt), wg \in BOOLEAN, junk \in Junks :
        IF Reduced
        THEN LET r == global_reduced_constraint(x, ngrad, wg, nodes[opt.eq[k]], junk)
                 rr == global_reduced_constraint(x, hist.ref_ngrad, wg,
                                                 nodes[opt.eq[k]], junk)
             IN  /\ nvars' = r.nvars
                 /\ ngrad' = r.ngrad
                 /\ hist' = AfterEval("interface", opt.eq[k], x, wg, r, rr)
        ELSE /\ hist' = [hist EXCEPT !.evals = @ + 1]
             /\ UNCHANGED <<nvars, ngrad>>
    /\ UNCHANGED <<solver, circular, simp_L2,
                   cdata, nodes, ns_start, ns_end, aliases, aliased, reduced,
                   aliasing_level, redToAlias, aliasToRed, rvars, use_constraints,
                   max_eval, gaussian_start, global_shaping, pc, opt, rc>>

----------------------------------------------------------------------------
(* solve, from the return of opt.optimize (or its exception) on *)

\* a solve whose catch blocks hand the failure's code on
solve_rc_code(outcome) == outcome.code

\* rc = static_cast<int>(res) in the try block; the three catch blocks
\* only print and leave rc = 0
solve_rc(outcome) ==
    IF outcome.kind = "returned" THEN outcome.code ELSE 0

\* a solve that never stores the optimizer's vector
solve_nvars_kept(outcome, x, junk) == nvars

\* nvars when solve returns; x is what the optimizer left in the vector it
\* was handed.  Reduced: "store full variable content" follows optimize
\* inside the try block, so an exception skips it.
solve_nvars(outcome, x, junk) ==
    IF Reduced
    THEN IF outcome.kind = "returned"
         THEN from_reduced_to_aliases(x, Size(nvars), aliases, aliasToRed, junk)
         ELSE nvars
    ELSE x

\* the ways opt.optimize can end: an outcome and the vector it leaves.  A
\* result is a point of the box; an exception leaves an iterate or nothing.
OptEnds ==
    {e \in [outcome : OptOutcomes, x : OptPoints(opt) \cup {Buf}] :
        e.outcome.kind = "returned" => e.x \in OptPoints(opt)}

solve_end ==
    /\ pc = "optimizing"
    /\ \E e \in OptEnds, junk \in Junks :
        /\ nvars' = solve_nvars(e.outcome, e.x, junk)
        /\ rvars' = IF Reduced THEN e.x ELSE rvars
        /\ rc' = solve_rc(e.outcome)
        /\ \E re \in (IF hist.same THEN {e} ELSE OptEnds) :
            hist' = [hist EXCEPT !.outcome = e.outcome,
                                 !.last_x = e.x,
                                 !.wrote = IF ~Reduced /\ e.x # nvars
                                           THEN [set |-> TRUE, x |-> e.x]
                                           ELSE @,
                                 !.ref = [rc |-> solve_rc(re.outcome),
                                          nvars |-> solve_nvars(re.outcome, re.x, junk)]]
    /\ pc' = "done"
    /\ UNCHANGED <<solver, circular, simp_L2,
                   cdata, nodes, ns_start, ns_end, aliases, aliased, reduced,
                   aliasing_level, redToAlias, aliasToRed, use_constraints,
                   max_eval, gaussian_start, global_shaping, ngrad, opt>>

----------------------------------------------------------------------------
(* Problem instances: the state the setters leave before the first solve *)

Nd(i, s, inp, out) == [index |-> i, simple |-> s, inp_edges |-> inp, out_edges |-> out]

\* two consecutive 1->1 interface nodes over edges 0, 1, 2
Chain == [E |-> 3, nodes |-> FromSeq(<<Nd(0, FALSE, <<0>>, <<1>>),
                                        Nd(1, FALSE, <<1>>, <<2>>)>>)]
\* one interface node 1->2
Split == [E |-> 3, nodes |-> FromSeq(<<Nd(0, FALSE, <<0>>, <<1, 2>>)>>)]
\* one interface node 2->2
Complex22 == [E |-> 4, nodes |-> FromSeq(<<Nd(0, FALSE, <<0, 1>>, <<2, 3>>)>>)]
\* one interface node 2->3
Complex23 == [E |-> 5, nodes |-> FromSeq(<<Nd(0, FALSE, <<0, 1>>, <<2, 3, 4>>)>>)]
\* a simple (range) node feeding a 1->2 interface node
Mixed == [E |-> 4, nodes |-> FromSeq(<<Nd(0, TRUE, <<0>>, <<1>>),
                                        Nd(1, FALSE, <<1>>, <<2, 3>>)>>)]

\* a 1->1 interface node beside a 1->2 interface node
Pair == [E |-> 5, nodes |-> FromSeq(<<Nd(0, FALSE, <<0>>, <<1>>),
                                       Nd(1, FALSE, <<2>>, <<3, 4>>)>>)]

Topologies == {Chain, Split, Complex22, Complex23, Mixed, Pair}

\* targets: the same value on every edge / position
GlobalTargets == {1, 4}
LocalTargets == {4, 100}
SRTargets == {0 - 1, 3}
\* boundary values of the local solver (powers of F)
NsVals == {2, 64}
\* largest sequence length of the local and shortrow instances
MaxSamples == 2

InitCommon ==
    /\ use_constraints = TRUE
    /\ circular = FALSE
    /\ simp_L2 = TRUE
    /\ max_eval = DefaultMaxEval
    /\ gaussian_start = FALSE
    /\ global_shaping = FALSE
    /\ aliasing_level = NONE
    /\ aliased = FALSE
    /\ redToAlias = Zeros(0)
    /\ aliasToRed = Zeros(0)
    /\ rvars = Zeros(0)
    /\ pc = "setup"
    /\ opt = NoOpt
    /\ rc = 0
    /\ hist = NoHist

\* global: allocate(E, N), allocate_node / set_node_input / set_node_output
\* for every node, set_cdata for every edge
InitGlobal ==
    /\ solver = "global"
    /\ \E t \in Topologies, c \in GlobalTargets :
        /\ nodes = t.nodes
        /\ cdata = Vec(t.E, LAMBDA i : c)
        /\ nvars = Zeros(t.E)
        /\ ngrad = Zeros(t.E)
        /\ aliases = Vec(t.E, LAMBDA i : NewAlias)
        /\ reduced = [k \in DOMAIN t.nodes |-> FALSE]
    /\ ns_start = 0
    /\ ns_end = 0

\* local: allocate(N), set_cdata, set_ns_start, set_ns_end
InitLocal ==
    /\ solver = "local"
    /\ \E N \in 1..MaxSamples, c \in LocalTargets :
        /\ cdata = Vec(N, LAMBDA i : c)
        /\ nvars = Zeros(N)
        /\ ngrad = Zeros(N)
    /\ ns_start \in NsVals
    /\ ns_end \in NsVals
    /\ nodes = Zeros(0)
    /\ aliases = Zeros(0)
    /\ reduced = Zeros(0)

\* shortrow: allocate(N), set_cdata
InitSR ==
    /\ solver = "shortrow"
    /\ \E N \in 1..MaxSamples, c \in SRTargets :
        /\ cdata = Vec(N, LAMBDA i : c)
        /\ nvars = Zeros(N)
        /\ ngrad = Zeros(N)
    /\ ns_start = 0
    /\ ns_end = 0
    /\ nodes = Zeros(0)
    /\ aliases = Zeros(0)
    /\ reduced = Zeros(0)

Init == InitCommon /\ (InitGlobal \/ InitLocal \/ InitSR)

\* Spec: the options are set, then solve is called (again and again)
Next ==
    \/ \E n \in MaxEvalVals : pc = "setup" /\ set_max_eval(n)
    \/ \E b \in BOOLEAN : pc = "setup" /\ use_noise(b)
    \/ \E b \in BOOLEAN : pc = "setup" /\ set_use_constraints(b)
    \/ \E b \in BOOLEAN : pc = "setup" /\ set_global_shaping(b)
    \/ \E l \in NONE..COMPLEX : pc = "setup" /\ set_aliasing_level(l)
    \/ solve_global
    \/ solve_local
    \/ solve_sr
    \/ solve_end

Spec == Init /\ [][Next]_vars

\* SpecEval: the global solver with the default options, the optimizer
\* calling the objective and the constraints back
InitEval == InitCommon /\ InitGlobal

NextEval ==
    \/ \E l \in NONE..COMPLEX : pc = "setup" /\ set_aliasing_level(l)
    \/ solve_global
    \/ OptEvalObjective
    \/ OptEvalConstraint
    \/ solve_end

SpecEval == InitEval /\ [][NextEval]_vars

\* SpecLife: the global solver from the state its static initializers leave,
\* the graph being built, solved, edited and solved again.  What is followed
\* here is the aliasing, so the optimizer always ends with NLOPT_SUCCESS.
InitLife ==
    /\ InitCommon
    /\ solver = "global"
    /\ cdata = Zeros(0)
    /\ nodes = Zeros(0)
    /\ nvars = Zeros(0)
    /\ ngrad = Zeros(0)
    /\ aliases = Zeros(0)
    /\ reduced = Zeros(0)
    /\ ns_start = 0
    /\ ns_end = 0

NextLife ==
    \/ reset
    \/ \E E \in 1..LifeEdges, N \in 1..LifeNodes : allocate(E, N)
    \/ \E k \in 0..(LifeNodes - 1), simple \in BOOLEAN, ni \in 0..LifeDeg, no \in 0..LifeDeg :
          allocate_node(k, simple, ni, no)
    \/ \E k \in 0..(LifeNodes - 1), i \in 0..(LifeDeg - 1), e \in 0..(LifeEdges - 1) :
          set_node_input(k, i, e)
    \/ \E k \in 0..(LifeNodes - 1), i \in 0..(LifeDeg - 1), e \in 0..(LifeEdges - 1) :
          set_node_output(k, i, e)
    \/ \E l \in NONE..COMPLEX : set_aliasing_level(l)
    \/ solve_global
    \/ solve_end /\ hist'.outcome = [kind |-> "returned", code |-> 1]

SpecLife == InitLife /\ [][NextLife]_vars

\* SpecAlias: the global solver on graphs of one or two nodes of every
\* shape, side by side or chained, at every aliasing level
Range(a, n) == [k \in 1..n |-> a + k - 1]

\* the shapes of a node: interface nodes with 0..AliasDeg inputs and outputs
\* (not both 0) and the simple 1->1 node
AliasShapes ==
    {sh \in [ni : 0..AliasDeg, no : 0..AliasDeg, simple : BOOLEAN] :
        IF sh.simple THEN sh.ni = 1 /\ sh.no = 1 ELSE sh.ni + sh.no > 0}

\* one node: inputs 0.., outputs after them
OneNode(a) ==
    [E |-> a.ni + a.no,
     nodes |-> FromSeq(<<Nd(0, a.simple, Range(0, a.ni), Range(a.ni, a.no))>>)]

\* two nodes; chained, the first output of node 0 is the first input of
\* node 1, otherwise the two nodes share no edge
TwoNodes(a, b, chained) ==
    LET ea == a.ni + a.no
        link == chained /\ a.no > 0 /\ b.ni > 0
        nb == IF link THEN b.ni - 1 ELSE b.ni
        binp == IF link THEN <<a.ni>> \o Range(ea, nb) ELSE Range(ea, nb)
    IN  [E |-> ea + nb + b.no,
         nodes |-> FromSeq(<<Nd(0, a.simple, Range(0, a.ni), Range(a.ni, a.no)),
                             Nd(1, b.simple, binp, Range(ea + nb, b.no))>>)]

AliasGraphs ==
    {OneNode(a) : a \in AliasShapes}
    \cup {TwoNodes(a, b, ch) : a \in AliasShapes, b \in AliasShapes, ch \in BOOLEAN}

InitAlias ==
    /\ InitCommon
    /\ solver = "global"
    /\ \E t \in AliasGraphs :
        /\ nodes = t.nodes
        /\ cdata = Vec(t.E, LAMBDA i : AliasTarget)
        /\ nvars = Zeros(t.E)
        /\ ngrad = Zeros(t.E)
        /\ aliases = Vec(t.E, LAMBDA i : NewAlias)
        /\ reduced = [k \in DOMAIN t.nodes |-> FALSE]
    /\ ns_start = 0
    /\ ns_end = 0

NextAlias ==
    \/ \E l \in NONE..COMPLEX : pc = "setup" /\ set_aliasing_level(l)
    \/ solve_global
    \/ OptEvalObjective
    \/ OptEvalConstraint
    \/ solve_end /\ hist'.outcome = [kind |-> "returned", code |-> 1]

SpecAlias == InitAlias /\ [][NextAlias]_vars

----------------------------------------------------------------------------
(* SpecCall: the global solver with the optimizer calling back, with
   vectors of its own, every function solve registered with it directly:
   the unreduced objective and equalities, the range inequalities and the
   alias inequalities.  None of these touches the static buffers. *)

\* what the optimizer's gradient buffer holds when it makes a call, tenths
PriorVal == 7
PriorGrads(n) == {Zeros(n), Vec(n, LAMBDA i : PriorVal)}

\* grad[idx] += d where idx may lie past the end of grad: that write lands
\* behind the vector's storage and leaves the vector itself as it was
AddIn(grad, idx, d) == IF idx \in DOMAIN grad THEN [grad EXCEPT ![idx] = @ + d] ELSE grad

\* global_urange_constraint(ns, grad, &node) as the optimizer calls it, with
\* vectors of its own dimension: [val, grad], in tenths
global_urange_call(ns, grad, wg, node, junk) ==
    LET inp == Head(node.inp_edges)
        out == Head(node.out_edges)
    IN  [val |-> One * ReadAt(ns, inp, junk) - One * ReadAt(ns, out, junk) * wdata,
         grad |-> IF wg THEN AddIn(AddIn(grad, inp, One), out, 0 - One * wdata)
                  ELSE grad]

\* global_lrange_constraint(ns, grad, &node) likewise
global_lrange_call(ns, grad, wg, node, junk) ==
    LET inp == Head(node.inp_edges)
        out == Head(node.out_edges)
    IN  [val |-> ReadAt(ns, out, junk) * iwdata - One * ReadAt(ns, inp, junk),
         grad |-> IF wg THEN AddIn(AddIn(grad, inp, 0 - One), out, iwdata)
                  ELSE grad]

\* global_alias_constraint(rns, rgrad, &alias) with its gradient
global_alias_call(rns, rgrad, wg, alias, junk) ==
    [val |-> global_alias_constraint(rns, alias, junk),
     grad |-> IF wg
              THEN BumpAll(BumpAll(rgrad, alias.pos, aliasToRed, 0 - One),
                           alias.neg, aliasToRed, One)
              ELSE rgrad]

\* hist after the optimizer called fn (for the node or alias arg) at x with
\* the gradient buffer g, and got r = [val, grad] back
AfterCall(fn, arg, x, wg, g, r) ==
    [hist EXCEPT !.evals = @ + 1,
                 !.req = [set |-> TRUE, x |-> x, wg |-> wg,
                          fn |-> fn, arg |-> arg, prior |-> g],
                 !.resp = [val |-> r.val, grad |-> r.grad]]

\* the points the optimizer calls at: the corners of OptPoints and the one
\* with the first coordinate at its upper bound
CallPoints(o) ==
    OptPoints(o) \cup {Vec(o.n, LAMBDA i : IF i = 0 THEN o.ub[i] ELSE o.lb[i])}

\* the buffers a call can come with: none, or one of the optimizer's
CallGrads(wg) == IF wg THEN PriorGrads(opt.n) ELSE {Zeros(0)}

CallFrame ==
    UNCHANGED <<solver, circular, simp_L2,
                cdata, nodes, ns_start, ns_end, aliases, aliased, reduced,
                aliasing_level, redToAlias, aliasToRed, rvars, use_constraints,
                max_eval, gaussian_start, global_shaping, nvars, ngrad, pc, opt, rc>>

\* the objective of the unreduced formulation: global_sampling
OptCallObjective ==
    /\ pc = "optimizing"
    /\ solver = "global"
    /\ ~Reduced
    /\ hist.evals < MaxEvals
    /\ \E x \in CallPoints(opt), wg \in BOOLEAN :
        \E g \in CallGrads(wg) :
            hist' = AfterCall("objective", 0, x, wg, g, global_sampling(x, g, wg))
    /\ CallFrame

\* an equality of the unreduced formulation: global_interface_constraint
OptCallInterface ==
    /\ pc = "optimizing"
    /\ solver = "global"
    /\ ~Reduced
    /\ hist.evals < MaxEvals
    /\ \E k \in 1..Len(opt.eq), x \in CallPoints(opt), wg \in BOOLEAN :
        \E g \in CallGrads(wg) :
            hist' = AfterCall("interface", opt.eq[k], x, wg, g,
                              global_interface_constraint(x, g, wg, nodes[opt.eq[k]]))
    /\ CallFrame

\* the edges a range constraint of node reads that lie past the end of the
\* optimizer's vectors
RangeJunks(node) ==
    IF Head(node.inp_edges) >= opt.n \/ Head(node.out_edges) >= opt.n
    THEN JunkVals ELSE {0}

\* a range inequality, registered at every level as global_urange_constraint
\* and global_lrange_constraint themselves
OptCallRange ==
    /\ pc = "optimizing"
    /\ solver = "global"
    /\ hist.evals < MaxEvals
    /\ \E k \in 1..Len(opt.range_ineq), x \in CallPoints(opt), wg \in BOOLEAN,
          upper \in BOOLEAN :
        LET node == nodes[opt.range_ineq[k]]
        IN  \E g \in CallGrads(wg), junk \in RangeJunks(node) :
                hist' = IF upper
                        THEN AfterCall("urange", node.index, x, wg, g,
                                       global_urange_call(x, g, wg, node, junk))
                        ELSE AfterCall("lrange", node.index, x, wg, g,
                                       global_lrange_call(x, g, wg, node, junk))
    /\ CallFrame

\* an alias inequality: global_alias_constraint
OptCallAlias ==
    /\ pc = "optimizing"
    /\ solver = "global"
    /\ hist.evals < MaxEvals
    /\ \E k \in 1..Len(opt.alias_ineq), x \in CallPoints(opt), wg \in BOOLEAN,
          junk \in Junks :
        \E g \in CallGrads(wg) :
            hist' = AfterCall("alias", opt.alias_ineq[k], x, wg, g,
                              global_alias_call(x, g, wg, aliases[opt.alias_ineq[k]], junk))
    /\ CallFrame

InitCall == InitCommon /\ InitGlobal

NextCall ==
    \/ \E b \in BOOLEAN : pc = "setup" /\ set_global_shaping(b)
    \/ \E l \in NONE..COMPLEX : pc = "setup" /\ set_aliasing_level(l)
    \/ solve_global
    \/ OptCallObjective
    \/ OptCallInterface
    \/ OptCallRange
    \/ OptCallAlias
    \/ solve_end /\ hist'.outcome = [kind |-> "returned", code |-> 1]

SpecCall == InitCall /\ [][NextCall]_vars

----------------------------------------------------------------------------
(* The shortrow objective (sr_sampling.cpp:45-107) and gradient checker
   (109-153), values and gradients in tenths, and SpecSR: the shortrow
   solver with its objective options, the optimizer calling rs_sampling
   back, and check_gradient. *)

\* static double w_w = 1, in tenths (w_s = 0.1 is shared with the global unit)
w_w == 10

\* simplicity(ns, grad, i0, i1): [val, grad]
simplicity(ns, grad, wg, i0, i1) ==
    LET diff == ns[i0] - ns[i1]
        sign == IF diff >= 0 THEN 1 ELSE 0 - 1
    IN  IF simp_L2
        THEN [val |-> loss(diff),
              grad |-> IF wg
                       THEN LET g1 == [grad EXCEPT ![i0] = @ + w_s * 2 * diff]
                            IN  [g1 EXCEPT ![i1] = @ - w_s * 2 * diff]
                       ELSE grad]
        ELSE [val |-> sign * diff,
              grad |-> IF wg
                       THEN LET g1 == [grad EXCEPT ![i0] = w_s * sign]
                            IN  [g1 EXCEPT ![i1] = 0 - w_s * sign]
                       ELSE grad]

\* the loop over the wales of rs_sampling: acc = [Ew, Es, grad]
RECURSIVE WaleLoop(_, _, _, _)
WaleLoop(i, ns, wg, acc) ==
    IF i >= Size(ns) THEN acc
    ELSE LET diff == ns[i] - cdata[i]
             g1 == IF wg THEN [acc.grad EXCEPT ![i] = @ + w_w * 2 * diff] ELSE acc.grad
             s == IF i > 0 THEN simplicity(ns, g1, wg, i, i - 1)
                  ELSE [val |-> 0, grad |-> g1]
         IN  WaleLoop(i + 1, ns, wg,
                      [Ew |-> acc.Ew + loss(diff), Es |-> acc.Es + s.val, grad |-> s.grad])

\* rs_sampling(ns, grad): [val, grad]; wg says whether grad is non-empty
rs_sampling(ns, grad, wg) ==
    LET N == Size(ns)
        res == WaleLoop(0, ns, wg, [Ew |-> 0, Es |-> 0, grad |-> grad])
        c == IF circular THEN simplicity(ns, res.grad, wg, 0, N - 1)
             ELSE [val |-> 0, grad |-> res.grad]
    IN  [val |-> res.Ew * w_w + (res.Es + c.val) * w_s, grad |-> c.grad]

\* set_circular(c)
set_circular(c) ==
    /\ pc # "optimizing"
    /\ solver = "shortrow"
    /\ circular' = c
    /\ UNCHANGED <<solver, simp_L2, cdata, nodes, ns_start, ns_end, aliases, aliased,
                   reduced, aliasing_level, redToAlias, aliasToRed, rvars,
                   use_constraints, max_eval, gaussian_start, global_shaping,
                   nvars, ngrad, pc, opt, rc, hist>>

\* set_simplicity_power(power): 1 and 2 select L1 and L2, anything else is
\* refused with a message
set_simplicity_power(power) ==
    /\ pc # "optimizing"
    /\ solver = "shortrow"
    /\ simp_L2' = IF power = 1 THEN FALSE ELSE IF power = 2 THEN TRUE ELSE simp_L2
    /\ UNCHANGED <<solver, circular, cdata, nodes, ns_start, ns_end, aliases, aliased,
                   reduced, aliasing_level, redToAlias, aliasToRed, rvars,
                   use_constraints, max_eval, gaussian_start, global_shaping,
                   nvars, ngrad, pc, opt, rc, hist>>

\* an error of the gradient checker: the quotient n / d, d > 0
Rat(n, d) == [n |-> n, d |-> d]
RatLeq(a, b) == a.n * b.d <= b.n * a.d
RatMax(a, b) == IF RatLeq(b, a) THEN a ELSE b
RatEq(a, b) == a.n * b.d = b.n * a.d

\* the loop of get_gradient_error(ns, rs_sampling, NULL, eps, relative):
\* grad_num = (f_p - f_n) / (2 * eps), abs_err = |grad_ana[i] - grad_num|,
\* rel_err = abs_err / grad_ana[i] if grad_ana[i] > 1e-8 (in tenths: a
\* positive entry) and abs_err otherwise
RECURSIVE GradErrLoop(_, _, _, _, _, _)
GradErrLoop(i, ns, grad_ana, eps, relative, max_err) ==
    IF i >= Size(cdata) THEN max_err
    ELSE LET f_p == rs_sampling([ns EXCEPT ![i] = @ + eps], Zeros(0), FALSE).val
             f_n == rs_sampling([ns EXCEPT ![i] = @ - eps], Zeros(0), FALSE).val
             num == Abs(grad_ana[i] * 2 * eps - (f_p - f_n))
             abs_err == Rat(num, 2 * eps * One)
             rel_err == IF grad_ana[i] > 0 THEN Rat(num, 2 * eps * grad_ana[i])
                        ELSE abs_err
         IN  GradErrLoop(i + 1, ns, grad_ana, eps, relative,
                         RatMax(max_err, IF relative THEN rel_err ELSE abs_err))

\* get_gradient_error(ns, rs_sampling, NULL, eps, relative)
get_gradient_error(ns, eps, relative) ==
    GradErrLoop(0, ns, rs_sampling(ns, Zeros(Size(ns)), TRUE).grad, eps, relative,
                Rat(0, 1))

\* the finite-difference steps check_gradient is called with
GradStep == 1

\* check_gradient(print, eps): the larger of the relative errors at cdata
\* and at nvars; hist keeps the call, the objective options it was made
\* under and what it returned
check_gradient(eps) ==
    /\ pc # "optimizing"
    /\ solver = "shortrow"
    /\ hist' = [hist EXCEPT
                  !.req = [set |-> TRUE, x |-> nvars, wg |-> TRUE,
                           fn |-> "check_gradient", arg |-> eps,
                           prior |-> Zeros(Size(nvars)),
                           circular |-> circular, simp_L2 |-> simp_L2],
                  !.resp = [val |-> 0, grad |-> Zeros(0),
                            err |-> RatMax(get_gradient_error(cdata, eps, TRUE),
                                           get_gradient_error(nvars, eps, TRUE))]]
    /\ UNCHANGED <<solver, circular, simp_L2, cdata, nodes, ns_start, ns_end, aliases,
                   aliased, reduced, aliasing_level, redToAlias, aliasToRed, rvars,
                   use_constraints, max_eval, gaussian_start, global_shaping,
                   nvars, ngrad, pc, opt, rc>>

\* largest number of wales, and the coordinates of the points the optimizer
\* calls the objective at
MaxWales == 3
WalePoints(n) == [0..(n - 1) -> {0, 2}]

\* the optimizer calls the objective rs_sampling with vectors of its own
OptCallWale ==
    /\ pc = "optimizing"
    /\ solver = "shortrow"
    /\ hist.evals < MaxEvals
    /\ \E x \in WalePoints(opt.n), wg \in BOOLEAN :
        \E g \in CallGrads(wg) :
            hist' = AfterCall("objective", 0, x, wg, g, rs_sampling(x, g, wg))
    /\ CallFrame

\* allocate(N), set_cdata for every wale
InitWales ==
    /\ InitCommon
    /\ solver = "shortrow"
    /\ \E N \in 1..MaxWales :
        /\ cdata \in [0..(N - 1) -> SRTargets]
        /\ nvars = Zeros(N)
        /\ ngrad = Zeros(N)
    /\ ns_start = 0
    /\ ns_end = 0
    /\ nodes = Zeros(0)
    /\ aliases = Zeros(0)
    /\ reduced = Zeros(0)

NextSR ==
    \/ \E c \in BOOLEAN : pc = "setup" /\ set_circular(c)
    \/ \E p \in 1..3 : pc = "setup" /\ set_simplicity_power(p)
    \/ pc = "setup" /\ check_gradient(GradStep)
    \/ solve_sr
    \/ OptCallWale
    \/ solve_end /\ hist'.outcome = [kind |-> "returned", code |-> 1]

SpecSR == InitWales /\ [][NextSR]_vars

----------------------------------------------------------------------------
(* SpecBound: the global solver on the catalog graphs with small and large
   targets mixed, for the bounds solve derives from them *)

\* a target whose half lies above the 1e3 the lower bound starts from
LargeTarget == 3000
BoundTargets == {4, LargeTarget}

InitBound ==
    /\ InitCommon
    /\ solver = "global"
    /\ \E t \in Topologies :
        /\ nodes = t.nodes
        /\ cdata \in [0..(t.E - 1) -> BoundTargets]
        /\ nvars = Zeros(t.E)
        /\ ngrad = Zeros(t.E)
        /\ aliases = Vec(t.E, LAMBDA i : NewAlias)
        /\ reduced = [k \in DOMAIN t.nodes |-> FALSE]
    /\ ns_start = 0
    /\ ns_end = 0

NextBound ==
    \/ \E l \in NONE..COMPLEX : pc = "setup" /\ set_aliasing_level(l)
    \/ solve_global
    \/ solve_end /\ hist'.outcome = [kind |-> "returned", code |-> 1]

SpecBound == InitBound /\ [][NextBound]_vars

----------------------------------------------------------------------------
(* Properties *)

Returned == hist.outcome.kind = "returned"
Thrown == hist.outcome.kind = "thrown"

\* index, pos and neg of every alias (min_bound is a parameter of the alias
\* inequality, which solve stores from the current cdata on every call)
Structure(al) ==
    [i \in DOMAIN al |-> [index |-> al[i].index, pos |-> al[i].pos, neg |-> al[i].neg]]

\* what compute_aliases gives when it is run afresh on the current nodes
Fresh == compute_aliases([AliasState EXCEPT !.aliased = FALSE], nodes, aliasing_level)

\* the cached aliasing is what a fresh computation gives (the mappings are
\* built, and used, at the levels above NONE only)
UpToDate ==
    /\ Structure(aliases) = Structure(Fresh.aliases)
    /\ reduced = Fresh.reduced
    /\ aliasing_level > NONE =>
        /\ redToAlias = Fresh.redToAlias
        /\ aliasToRed = Fresh.aliasToRed
        /\ Size(rvars) = Size(Fresh.rvars)

\* The steps of SpecLife, told apart by pc: solve's entry takes pc to
\* "optimizing", its return takes it to "done", and every step that leaves
\* pc alone is reset, allocate, allocate_node, set_node_input,
\* set_node_output or set_aliasing_level.
SolveEntry == pc # "optimizing" /\ pc' = "optimizing"
Invalidates == pc' = pc

C1_Step ==
    /\ Invalidates => ~aliased'
    /\ SolveEntry => aliased'
    /\ (SolveEntry /\ aliased) =>
        /\ Structure(aliases') = Structure(aliases)
        /\ UNCHANGED <<reduced, redToAlias, aliasToRed>>
    /\ pc' = "optimizing" => UpToDate'

\* C1: reset, allocate, allocate_node, set_node_input, set_node_output and
\* set_aliasing_level leave the aliased flag false; solve sets it; a solve
\* entered with the flag set leaves the aliases, the reduced flags and the
\* mappings as they were; and whenever the optimizer runs, the aliases,
\* reduced flags and mappings in use are those a fresh computation from the
\* current nodes and aliasing level gives.
C1_Lifecycle == [][C1_Step]_vars

\* a second solve, entered with the flag set, running on a real alias
C1_Witness ==
    /\ pc = "optimizing"
    /\ hist.was_aliased
    /\ \E i \in DOMAIN aliases : ~empty(aliases[i])

C3_NegativeCode ==
    (pc = "done" /\ Thrown) => rc = hist.outcome.code

\* C4: after a solve that ends in an optimizer failure, nvars (what
\* get_variable_value reads) is not the vector the optimizer, or the last
\* gather of a callback, wrote into it while the optimizer ran.
C4_NoPartialIterate ==
    (pc = "done" /\ Thrown /\ hist.wrote.set) => nvars # hist.wrote.x

\* C5: when the optimizer stops on its evaluation (5) or time (6) budget,
\* solve returns that code and nvars is the optimizer's last x, in the
\* reduced global solver that x expanded by from_reduced_to_aliases.
C5_BudgetStop ==
    (pc = "done" /\ Returned /\ hist.outcome.code \in {5, 6}) =>
        /\ rc = hist.outcome.code
        /\ IF Reduced
           THEN /\ rvars = hist.last_x
                /\ \E junk \in Junks :
                     nvars = from_reduced_to_aliases(hist.last_x, Size(cdata),
                                                     aliases, aliasToRed, junk)
           ELSE nvars = hist.last_x

\* a budget stop of the reduced solver with an eliminated variable whose
\* value is not a copy of the start
C5_Witness ==
    /\ pc = "done"
    /\ rc = 5
    /\ Reduced
    /\ ~Dangling(aliases, aliasToRed)
    /\ Size(rvars) < Size(nvars)
    /\ nvars # cdata

\* C6: a global solve on an invalid setup (here: an alias that refers to a
\* variable which is itself aliased away) is aborted before the optimizer
\* runs.
C6_InvalidAborted ==
    ~(pc = "optimizing" /\ solver = "global" /\ Dangling(aliases, aliasToRed))

\* C7: a solve gives the result code and the values of the same solve on a
\* fresh instance, whatever earlier solves left behind.
C7_Deterministic ==
    (pc = "done" /\ solver = "global") =>
        /\ rc = hist.ref.rc
        /\ nvars = hist.ref.nvars

\* the target of the variable the optimizer holds at position i
TargetOf(i) == IF Reduced THEN cdata[redToAlias[i]] ELSE cdata[i]

\* C8: without gaussian_start, the point handed to the optimizer is the
\* target clipped into the bounds: x_i = min(ub_i, max(lb_i, c_i)).
C8_ClippedStart ==
    (pc = "optimizing" /\ ~gaussian_start) =>
        \A i \in DOMAIN hist.x0 :
            hist.x0[i] = Min2(opt.ub[i], Max2(opt.lb[i], TargetOf(i)))

\* C9: after a global solve whose optimizer returned a point inside its
\* bounds, every value of nvars lies within [min_bound, max_bound].
C9_BoundFeasible ==
    (/\ pc = "done"
     /\ solver = "global"
     /\ Returned
     /\ ~Dangling(aliases, aliasToRed)
     /\ \A i \in DOMAIN hist.last_x :
            opt.lb[i] <= hist.last_x[i] /\ hist.last_x[i] <= opt.ub[i])
    => \A i \in DOMAIN nvars :
            GlobalMinBound(cdata) <= nvars[i] /\ nvars[i] <= GlobalMaxBound(cdata)

\* C10 as stated: every solve gives the optimizer a positive evaluation cap,
\* max_eval when nonzero and 1e3 otherwise, in all three solvers.
C10_CapDefault1e3 ==
    pc = "optimizing" =>
        /\ opt.maxeval > 0
        /\ opt.maxeval = IF max_eval # 0 THEN max_eval ELSE 1000

\* C10, amended: every solve gives the optimizer a positive evaluation cap,
\* max_eval when nonzero; when max_eval is 0 the cap is 1e3 in the global
\* and local solvers and 1e2 in the shortrow solver.
C10_CapDefault ==
    pc = "optimizing" =>
        /\ opt.maxeval > 0
        /\ opt.maxeval = IF max_eval # 0 THEN max_eval
                         ELSE IF solver = "shortrow" THEN 100 ELSE 1000

C10_Witness ==
    pc = "optimizing" /\ solver = "shortrow" /\ max_eval = 0 /\ opt.maxeval = 100

\* C11: with use_constraints off, solve registers no equality and no
\* inequality constraint with the optimizer, whatever global_shaping and
\* aliasing_level are.
C11_NoConstraints ==
    (pc = "optimizing" /\ ~use_constraints) =>
        /\ opt.eq = <<>>
        /\ opt.alias_ineq = <<>>
        /\ opt.range_ineq = <<>>
        /\ opt.next_ineq = <<>>

\* the nodes (by position) that are not simple, have an input and an output
\* and are not marked reduced
OpenInterfaceNodes ==
    {k \in DOMAIN nodes :
        /\ ~nodes[k].simple
        /\ Len(nodes[k].inp_edges) > 0
        /\ Len(nodes[k].out_edges) > 0
        /\ ~reduced[nodes[k].index]}

\* C12: with use_constraints on, the global solve registers one interface
\* equality for each node that is not simple, has an input and an output and
\* was not marked reduced, and for no other node; a reduced node never gets
\* one.
C12_InterfaceEqualities ==
    (pc = "optimizing" /\ solver = "global" /\ use_constraints) =>
        /\ SeqSet(opt.eq) = OpenInterfaceNodes
        /\ Len(opt.eq) = Cardinality(OpenInterfaceNodes)
        /\ \A j \in 1..Len(opt.eq) : ~reduced[nodes[opt.eq[j]].index]

\* a solve with one node reduced and another carrying the equality
C12_Witness ==
    /\ pc = "optimizing"
    /\ solver = "global"
    /\ use_constraints
    /\ opt.eq # <<>>
    /\ \E k \in DOMAIN reduced : reduced[k]

\* C13: for the single interface node in = [0, 1], out = [2, 3] under
\* COMPLEX, the aliasing is x_2 = x_0 + x_1 - x_3 and solve, with
\* use_constraints on, registers exactly one alias inequality, the one of
\* alias 2, with the lower bound min_bound.
C13_ComplexAliasInequality ==
    (/\ pc = "optimizing"
     /\ solver = "global"
     /\ use_constraints
     /\ nodes = Complex22.nodes
     /\ aliasing_level = COMPLEX)
    => /\ aliases[2].pos = <<0, 1>>
       /\ aliases[2].neg = <<3>>
       /\ opt.alias_ineq = <<2>>
       /\ aliases[2].min_bound = GlobalMinBound(cdata)

\* C14: for the chain in = [0], out = [1] and in = [1], out = [2] under
\* TRIVIAL, the reduced problem has R = 1 and the expansion of the reduced
\* vector r is x_0 = x_1 = x_2 = r_0.
C14_ChainCollapses ==
    (/\ pc = "done"
     /\ solver = "global"
     /\ Returned
     /\ nodes = Chain.nodes
     /\ aliasing_level = TRIVIAL)
    => /\ Size(rvars) = 1
       /\ nvars = [i \in 0..2 |-> rvars[0]]

\* sum of a[i] * b[i] over the indices of a
RECURSIVE DotFrom(_, _, _)
DotFrom(k, a, b) ==
    IF k >= Size(a) THEN 0 ELSE a[k] * b[k] + DotFrom(k + 1, a, b)

Dot(a, b) == DotFrom(0, a, b)

\* the optimizer has just been answered by a reduced callback with a
\* gradient: nvars is the gather of the point asked about, ngrad the
\* full-space gradient, hist.resp.rgrad its scatter
ReducedGradientGiven ==
    /\ pc = "optimizing"
    /\ Reduced
    /\ hist.req.set
    /\ hist.req.wg

\* C15: when no alias refers to an aliased index, the scatter is the
\* transpose of the gather: for the reduced point r and the full gradient g
\* of a callback, sum_i g_i * x_i = sum_j rg_j * r_j with
\* x = from_reduced_to_aliases(r) and rg = from_aliases_to_reduced(g).
C15_ScatterIsTranspose ==
    (ReducedGradientGiven /\ ~Dangling(aliases, aliasToRed)) =>
        /\ nvars = from_reduced_to_aliases(hist.req.x, Size(cdata), aliases, aliasToRed, 0)
        /\ Dot(ngrad, nvars) = Dot(hist.resp.rgrad, hist.req.x)

\* a gradient scattered through an alias with positive and negative terms
C15_Witness ==
    /\ ReducedGradientGiven
    /\ ~Dangling(aliases, aliasToRed)
    /\ \E i \in DOMAIN aliases : aliases[i].neg # <<>> /\ ngrad[i] # 0
    /\ Dot(ngrad, nvars) # 0

C16_Step ==
    /\ reset =>
        /\ nvars' = Zeros(0) /\ cdata' = Zeros(0) /\ ngrad' = Zeros(0)
        /\ aliases' = Zeros(0) /\ reduced' = Zeros(0) /\ nodes' = Zeros(0)
        /\ rvars' = Zeros(0) /\ redToAlias' = Zeros(0) /\ aliasToRed' = Zeros(0)
    /\ \A E \in 1..LifeEdges, N \in 1..LifeNodes :
        allocate(E, N) =>
            /\ nvars' = Zeros(E) /\ cdata' = Zeros(E) /\ ngrad' = Zeros(E)
            /\ Size(aliases') = E /\ Size(nodes') = N /\ Size(reduced') = N
            /\ rvars' = Zeros(0) /\ redToAlias' = Zeros(0) /\ aliasToRed' = Zeros(0)

\* C16: reset leaves every buffer of the global solver empty, and allocate
\* leaves every buffer at the requested size with zero entries; nothing
\* written before the call survives in ngrad, rvars, redToAlias or
\* aliasToRed.
C16_BuffersCleared == [][C16_Step]_vars

\* every constraint solve registered holds at the current point to within
\* constraint_tol: the interface equalities and the range inequalities at
\* nvars, the alias inequalities at rvars
RegisteredSatisfied ==
    /\ \A j \in 1..Len(opt.eq) :
        Abs(One * global_interface_constraint(nvars, Zeros(0), FALSE,
                                              nodes[opt.eq[j]]).val) <= constraint_tol
    /\ \A j \in 1..Len(opt.alias_ineq) :
        global_alias_constraint(rvars, aliases[opt.alias_ineq[j]], 0) <= constraint_tol
    /\ \A j \in 1..Len(opt.range_ineq) :
        /\ global_urange_constraint(nvars, nodes[opt.range_ineq[j]]) <= constraint_tol
        /\ global_lrange_constraint(nvars, nodes[opt.range_ineq[j]]) <= constraint_tol

\* C17: with use_constraints on, whenever the point a global solve leaves
\* satisfies every registered constraint to within constraint_tol,
\* get_constraint_max_error() is at most constraint_tol.
C17_MaxErrorWithinTol ==
    (/\ pc = "done"
     /\ solver = "global"
     /\ use_constraints
     /\ Returned
     /\ ~Dangling(aliases, aliasToRed)
     /\ RegisteredSatisfied)
    => get_constraint_max_error <= constraint_tol

\* the optimizer of the global solver is running at level NONE
RunningAtNone == pc = "optimizing" /\ solver = "global" /\ aliasing_level = NONE

\* C18 as stated: at NONE every alias is empty and compute_aliases leaves
\* identity mappings with R = E, so that the reduced wrappers coincide with
\* the unreduced functions.
C18_IdentityMappings ==
    RunningAtNone =>
        /\ \A i \in DOMAIN aliases : empty(aliases[i])
        /\ Size(rvars) = Size(cdata)
        /\ redToAlias = [i \in DOMAIN cdata |-> i]
        /\ aliasToRed = [i \in DOMAIN cdata |-> i]

\* C18, amended: at NONE every alias is empty and no node is reduced, and
\* solve does not use the reduced formulation: compute_aliases builds no
\* mappings (on an instance that never solved above NONE they stay empty,
\* R = 0), the optimizer is given the full vector (n = E) with the unreduced
\* objective and one interface equality per interface node, and their
\* evaluations leave nvars and ngrad as solve set them.
C18_NoneIsUnreduced ==
    RunningAtNone =>
        /\ \A i \in DOMAIN aliases : empty(aliases[i]) /\ aliases[i].index = i
        /\ \A k \in DOMAIN reduced : ~reduced[k]
        /\ redToAlias = Zeros(0) /\ aliasToRed = Zeros(0) /\ rvars = Zeros(0)
        /\ opt.n = Size(cdata)
        /\ use_constraints =>
            SeqSet(opt.eq) = {k \in DOMAIN nodes : ~nodes[k].simple}
        /\ ~hist.req.set
        /\ nvars = hist.x0

\* a callback made at NONE on a graph with an interface equality
C18_Witness ==
    /\ RunningAtNone
    /\ hist.evals > 0
    /\ opt.eq # <<>>
    /\ Size(nvars) > 1

\* the places (node, side, position) where edge e occurs in the lists of
\* the nodes with an active interface constraint
Occurrences(e) ==
    {t \in (DOMAIN nodes) \X {"inp", "out"} \X (1..AliasDeg) :
        /\ has_interface_constraint(nodes[t[1]])
        /\ LET l == IF t[2] = "inp" THEN nodes[t[1]].inp_edges
                                    ELSE nodes[t[1]].out_edges
           IN  t[3] <= Len(l) /\ l[t[3]] = e}

\* every edge occurs at most once across the interface nodes' lists
EdgeDisjoint == \A e \in DOMAIN cdata : Cardinality(Occurrences(e)) <= 1

\* C19: when every edge occurs at most once in the input and output lists
\* of the interface nodes, then after compute_aliases, at any level, every
\* index in the pos or neg of a non-empty alias is itself not aliased (its
\* alias is empty and aliasToRed maps it to a reduced index that maps back)
\* and no alias has negative terms without a positive one.
C19_AliasIndependence ==
    (solver = "global" /\ aliased /\ EdgeDisjoint) =>
        \A i \in DOMAIN aliases :
            ~empty(aliases[i]) =>
                /\ \A j \in SeqSet(aliases[i].pos) \cup SeqSet(aliases[i].neg) :
                    /\ empty(aliases[j])
                    /\ aliasToRed[j] \in DOMAIN rvars
                    /\ redToAlias[aliasToRed[j]] = j
                /\ (aliases[i].neg # <<>> => aliases[i].pos # <<>>)

\* two disjoint interface nodes, both aliased away, one with negative terms
C19_Witness ==
    /\ pc = "done"
    /\ aliased
    /\ EdgeDisjoint
    /\ Size(nodes) = 2
    /\ \A k \in DOMAIN reduced : reduced[k]
    /\ \E i \in DOMAIN aliases : aliases[i].neg # <<>>

\* the alias the level rules give node nd at level l: [at, pos, neg], or
\* at = NoRed when the rules create none
RuleAlias(nd, l) ==
    LET ni == Len(nd.inp_edges)
        no == Len(nd.out_edges)
        none == [at |-> NoRed, pos |-> <<>>, neg |-> <<>>]
    IN  IF nd.simple \/ ni = 0 \/ no = 0 THEN none
        ELSE IF ni = 1 /\ no = 1
        THEN IF l >= TRIVIAL
             THEN [at |-> nd.out_edges[1], pos |-> nd.inp_edges, neg |-> <<>>]
             ELSE none
        ELSE IF ni = 1
        THEN IF l >= BASIC
             THEN [at |-> nd.inp_edges[1], pos |-> nd.out_edges, neg |-> <<>>]
             ELSE none
        ELSE IF no = 1
        THEN IF l >= BASIC
             THEN [at |-> nd.out_edges[1], pos |-> nd.inp_edges, neg |-> <<>>]
             ELSE none
        ELSE IF l = COMPLEX
             THEN [at |-> nd.out_edges[1], pos |-> nd.inp_edges,
                   neg |-> Tail(nd.out_edges)]
             ELSE none

\* C20: after compute_aliases every node is aliased as the rule of its
\* shape and the level says (1->1 from TRIVIAL, one singleton side from
\* BASIC, n->m only at COMPLEX, nothing at NONE), a node is marked reduced
\* exactly when the rules create an alias for it, and simple or one-sided
\* nodes are never reduced.
C20_LevelRules ==
    (solver = "global" /\ aliased) =>
        /\ \A k \in DOMAIN nodes :
            LET r == RuleAlias(nodes[k], aliasing_level)
            IN  /\ reduced[k] <=> r.at # NoRed
                /\ r.at # NoRed =>
                    /\ aliases[r.at].pos = r.pos
                    /\ aliases[r.at].neg = r.neg
        /\ aliasing_level = NONE => \A i \in DOMAIN aliases : empty(aliases[i])

\* C21: after compute_aliases at a level above NONE the mappings agree:
\* redToAlias and rvars have as many entries R as there are empty aliases,
\* redToAlias is strictly increasing, aliasToRed has one entry per edge and
\* inverts redToAlias, aliasToRed is the "aliased away" marker exactly at the
\* non-empty aliases, and the optimizer is created with dimension R.
C21_MappingsConsistent ==
    (pc = "optimizing" /\ solver = "global" /\ aliasing_level > NONE) =>
        LET R == Size(redToAlias)
        IN  /\ R = Size(rvars)
            /\ R = Cardinality({i \in DOMAIN aliases : empty(aliases[i])})
            /\ DOMAIN redToAlias = 0..(R - 1)
            /\ \A r, q \in DOMAIN redToAlias : r < q => redToAlias[r] < redToAlias[q]
            /\ DOMAIN aliasToRed = DOMAIN cdata
            /\ \A r \in DOMAIN redToAlias : aliasToRed[redToAlias[r]] = r
            /\ \A i \in DOMAIN aliasToRed : aliasToRed[i] = NoRed <=> ~empty(aliases[i])
            /\ opt.n = R

\* a solve at COMPLEX of a graph where an alias was made and at least two
\* variables remain
C21_Witness ==
    /\ pc = "optimizing"
    /\ solver = "global"
    /\ aliasing_level = COMPLEX
    /\ \E i \in DOMAIN aliases : ~empty(aliases[i])
    /\ Size(redToAlias) >= 2
    /\ Size(redToAlias) < Size(cdata)

\* a call of a constraint function of the global solver with a gradient
CalledWithGradient(fn) == hist.req.set /\ hist.req.wg /\ hist.req.fn = fn

\* C22: a constraint function called with a non-empty gradient buffer
\* overwrites the entries of the indices it affects, whatever they held:
\* interface +1 on inputs and -1 on outputs, upper range grad[in] = 1 and
\* grad[out] = -w[n], lower range grad[in] = -1 and grad[out] = iw[n],
\* alias inequality -1 on pos and +1 on neg.
C22_ConstraintsOverwrite ==
    (pc = "optimizing" /\ solver = "global" /\ hist.req.set /\ hist.req.wg) =>
        LET g == hist.resp.grad
            at(i, v) == i \in DOMAIN g => g[i] = v
        IN  /\ CalledWithGradient("interface") =>
                LET node == nodes[hist.req.arg]
                IN  /\ \A i \in SeqSet(node.inp_edges) : at(i, One)
                    /\ \A i \in SeqSet(node.out_edges) : at(i, 0 - One)
            /\ CalledWithGradient("urange") =>
                LET node == nodes[hist.req.arg]
                IN  /\ at(Head(node.inp_edges), One)
                    /\ at(Head(node.out_edges), 0 - One * wdata)
            /\ CalledWithGradient("lrange") =>
                LET node == nodes[hist.req.arg]
                IN  /\ at(Head(node.inp_edges), 0 - One)
                    /\ at(Head(node.out_edges), iwdata)
            /\ CalledWithGradient("alias") =>
                LET alias == aliases[hist.req.arg]
                IN  /\ \A i \in SeqSet(alias.pos) : at(aliasToRed[i], 0 - One)
                    /\ \A i \in SeqSet(alias.neg) : at(aliasToRed[i], One)

\* the coefficient of x_i in the difference (sum of inputs - sum of outputs)
\* of node k
Coef(k, i) ==
    Cardinality({j \in 1..Len(nodes[k].inp_edges) : nodes[k].inp_edges[j] = i})
    - Cardinality({j \in 1..Len(nodes[k].out_edges) : nodes[k].out_edges[j] = i})

\* the simple nodes with at least one input and one output
PenalizedNodes ==
    {k \in DOMAIN nodes :
        nodes[k].simple /\ nodes[k].inp_edges # <<>> /\ nodes[k].out_edges # <<>>}

\* (sum of inputs - sum of outputs) of node k at x
NodeDiff(k, x) == Dot(x, [i \in DOMAIN x |-> Coef(k, i)])

\* w_c * sum (x_i - c_i)^2 + w_s * sum over the penalized nodes of diff^2
ObjectiveValue(x) ==
    LET d == [i \in DOMAIN x |-> x[i] - cdata[i]]
        e == [k \in DOMAIN nodes |->
                IF k \in PenalizedNodes THEN NodeDiff(k, x) * NodeDiff(k, x) ELSE 0]
    IN  w_c * Dot(d, d) + w_s * Dot(e, [k \in DOMAIN nodes |-> 1])

\* the partial derivative of ObjectiveValue by x_i
ObjectivePartial(x, i) ==
    LET t == [k \in DOMAIN nodes |->
                IF k \in PenalizedNodes THEN 2 * w_s * NodeDiff(k, x) * Coef(k, i) ELSE 0]
    IN  2 * w_c * (x[i] - cdata[i]) + Dot(t, [k \in DOMAIN nodes |-> 1])

\* C23: global_sampling returns w_c * sum (x_i - c_i)^2 + w_s * sum over the
\* simple nodes with an input and an output of (sum in - sum out)^2, and into
\* a zeroed gradient buffer it writes the exact partial derivatives of that
\* value (for a quadratic the central difference of step 1 is exact);
\* interface nodes contribute nothing.
C23_GlobalObjective ==
    (pc = "optimizing" /\ solver = "global" /\ hist.req.set
        /\ hist.req.fn = "objective") =>
        LET x == hist.req.x
            bump(i, d) == [x EXCEPT ![i] = @ + d]
        IN  /\ hist.resp.val = ObjectiveValue(x)
            /\ (hist.req.wg /\ hist.req.prior = Zeros(Size(x))) =>
                \A i \in DOMAIN x :
                    /\ hist.resp.grad[i] = ObjectivePartial(x, i)
                    /\ 2 * hist.resp.grad[i] =
                          ObjectiveValue(bump(i, 1)) - ObjectiveValue(bump(i, 0 - 1))

\* the objective called with a zeroed gradient at a point where a simple
\* node and an interface node both have a non-zero difference
C23_Witness ==
    /\ pc = "optimizing"
    /\ solver = "global"
    /\ hist.req.set
    /\ hist.req.fn = "objective"
    /\ hist.req.wg
    /\ hist.req.prior = Zeros(Size(hist.req.x))
    /\ \E k \in PenalizedNodes : NodeDiff(k, hist.req.x) # 0
    /\ \E k \in DOMAIN nodes : ~nodes[k].simple /\ NodeDiff(k, hist.req.x) # 0
    /\ \E i \in DOMAIN cdata : hist.req.x[i] # cdata[i]

\* the adjacent pairs (i0, i1) of the simplicity term for N wales
WalePairs(N) ==
    {<<j, j - 1>> : j \in 1..(N - 1)} \cup (IF circular THEN {<<0, N - 1>>} ELSE {})

\* what the pair p contributes to the partial derivative by x_i, in tenths
PairTerm(p, i, x) ==
    LET diff == x[p[1]] - x[p[2]]
        t == IF simp_L2 THEN 2 * w_s * diff
             ELSE IF diff >= 0 THEN w_s ELSE 0 - w_s
    IN  (IF p[1] = i THEN t ELSE 0) - (IF p[2] = i THEN t ELSE 0)

RECURSIVE SumPairs(_, _, _)
SumPairs(S, i, x) ==
    IF S = {} THEN 0
    ELSE LET p == CHOOSE q \in S : TRUE
         IN  PairTerm(p, i, x) + SumPairs(S \ {p}, i, x)

\* C24: into a zeroed gradient buffer rs_sampling writes, for every wale i,
\* 2 * w_w * (x_i - c_i) plus the simplicity contributions of every adjacent
\* pair containing i (+-2 * w_s * diff under L2, +-w_s * sign(diff) under
\* L1), all added up: neither the accuracy term nor an earlier pair is lost.
C24_ShortrowGradient ==
    (pc = "optimizing" /\ solver = "shortrow" /\ hist.req.set
        /\ hist.req.fn = "objective" /\ hist.req.wg
        /\ hist.req.prior = Zeros(Size(hist.req.x))) =>
        \A i \in DOMAIN hist.req.x :
            hist.resp.grad[i] =
                2 * w_w * (hist.req.x[i] - cdata[i])
                + SumPairs(WalePairs(Size(hist.req.x)), i, hist.req.x)

\* a vector of the local solver's dimension with x0 first and xl last
EndsAt(x0, xl) ==
    Vec(opt.n, LAMBDA i : IF i = 0 THEN x0 ELSE IF i = opt.n - 1 THEN xl ELSE opt.lb[i])

\* C25: with use_constraints on, the local solve registers exactly the
\* inequalities NextMin and NextMax of i = 0..N-2 (2 * (N - 1) of them) and
\* no First or Last one, and every x0 within the bounds of position 0
\* satisfies FirstMin and FirstMax, every xl within those of position N-1
\* satisfies LastMin and LastMax.
C25_BoundFolding ==
    (pc = "optimizing" /\ solver = "local" /\ use_constraints) =>
        LET N == Size(cdata)
        IN  /\ Len(opt.next_ineq) = 2 * (N - 1)
            /\ SeqSet(opt.next_ineq) =
                  [index : 0..(N - 2), type : {"NextMin", "NextMax"}]
            /\ \A x0 \in opt.lb[0]..opt.ub[0] :
                \A xl \in IF N = 1 THEN {x0} ELSE opt.lb[N - 1]..opt.ub[N - 1] :
                    LET x == EndsAt(x0, xl)
                    IN  /\ local_constraint(x, [index |-> 0, type |-> "FirstMin"]) <= 0
                        /\ local_constraint(x, [index |-> 0, type |-> "FirstMax"]) <= 0
                        /\ local_constraint(x, [index |-> N - 1, type |-> "LastMin"]) <= 0
                        /\ local_constraint(x, [index |-> N - 1, type |-> "LastMax"]) <= 0

\* a local solve of two samples from a large boundary value: the bounds
\* leave a range of values at both ends and First/Last are tighter than
\* the floor
C25_Witness ==
    /\ pc = "optimizing"
    /\ solver = "local"
    /\ use_constraints
    /\ Size(cdata) = 2
    /\ Len(opt.next_ineq) = 2
    /\ opt.lb[0] < opt.ub[0]
    /\ opt.lb[1] < opt.ub[1]
    /\ opt.lb[0] > BoundFloor

\* max(2, min_i floor(c_i * 0.5)) and max(2, max_i ceil(c_i * 2))
HalfOfSmallest ==
    Max2(BoundFloor, CHOOSE m \in {cdata[i] \div 2 : i \in DOMAIN cdata} :
                        \A i \in DOMAIN cdata : m <= cdata[i] \div 2)
DoubleOfLargest ==
    Max2(BoundFloor, CHOOSE m \in {2 * cdata[i] : i \in DOMAIN cdata} :
                        \A i \in DOMAIN cdata : m >= 2 * cdata[i])

\* C26: for every non-empty target vector the global solve gives every
\* variable the bounds min_bound = max(2, min_i floor(c_i * 0.5)) and
\* max_bound = max(2, max_i ceil(c_i * 2)), with min_bound <= max_bound, and
\* records that min_bound in every alias that gets an inequality.
C26_GlobalBounds ==
    (pc = "optimizing" /\ solver = "global" /\ cdata # Zeros(0)) =>
        /\ \A i \in DOMAIN opt.lb :
            /\ opt.lb[i] = HalfOfSmallest
            /\ opt.ub[i] = DoubleOfLargest
            /\ opt.lb[i] <= opt.ub[i]
        /\ \A k \in SeqSet(opt.alias_ineq) : aliases[k].min_bound = HalfOfSmallest

\* reduced vectors with a different value in every coordinate, and a flat one
ProbeVectors(R) ==
    {Vec(R, LAMBDA i : 1), Vec(R, LAMBDA i : i + 1), Vec(R, LAMBDA i : (i + 1) * (i + 1))}

\* C27: when every edge occurs at most once in the interface nodes' lists,
\* the full vector gathered from any reduced vector satisfies the interface
\* equality (sum of inputs = sum of outputs) of every node marked reduced,
\* exactly; so does the vector a successful solve leaves in nvars.
C27_ReducedSatisfied ==
    (solver = "global" /\ aliased /\ aliasing_level > NONE /\ EdgeDisjoint
        /\ pc # "setup") =>
        \A k \in DOMAIN nodes :
            reduced[k] =>
                /\ \A r \in ProbeVectors(Size(rvars)) \cup OptPoints(opt) :
                    LET x == from_reduced_to_aliases(r, Size(nvars), aliases, aliasToRed, 0)
                    IN  SumIdx(nodes[k].inp_edges, x) = SumIdx(nodes[k].out_edges, x)
                /\ (pc = "done" /\ Returned) =>
                    SumIdx(nodes[k].inp_edges, nvars) = SumIdx(nodes[k].out_edges, nvars)

\* the 1->2 node under BASIC after a solve: two variables remain and the
\* input is the sum of the two outputs
C27_Witness ==
    /\ pc = "done"
    /\ Returned
    /\ solver = "global"
    /\ aliasing_level = BASIC
    /\ EdgeDisjoint
    /\ Size(nodes) = 1
    /\ Len(nodes[0].inp_edges) = 1
    /\ Len(nodes[0].out_edges) = 2
    /\ reduced[0]
    /\ Size(rvars) = 2
    /\ nvars[nodes[0].inp_edges[1]] = nvars[nodes[0].out_edges[1]] + nvars[nodes[0].out_edges[2]]

\* the gradient of node's interface constraint in the full space, in tenths
InterfaceGradient(node) ==
    SetAt(SetAt(Zeros(Size(cdata)), node.inp_edges, One), node.out_edges, 0 - One)

\* C28: global_reduced_constraint called with a gradient hands back the
\* transpose of the expansion applied to the gradient of its own node's
\* constraint, whatever was evaluated before: nothing an earlier evaluation
\* left in the scratch gradient ngrad reaches rgrad.
C28_ReducedConstraintGradient ==
    (pc = "optimizing" /\ solver = "global" /\ Reduced /\ hist.req.set
        /\ hist.req.fn = "interface" /\ hist.req.wg
        /\ ~Dangling(aliases, aliasToRed)) =>
        hist.resp.rgrad =
            from_aliases_to_reduced(InterfaceGradient(nodes[hist.req.arg]),
                                    hist.req.x, aliases, aliasToRed)

\* the gradient of node's upper / lower range constraint in the full space
RangeGradient(node, upper) ==
    LET z == Zeros(Size(cdata))
        inp == Head(node.inp_edges)
        out == Head(node.out_edges)
    IN  IF upper THEN [[z EXCEPT ![inp] = One] EXCEPT ![out] = @ - One * wdata]
        ELSE [[z EXCEPT ![inp] = 0 - One] EXCEPT ![out] = @ + iwdata]

\* C29: with aliasing above NONE and global_shaping on, a range constraint
\* called at the reduced vector r evaluates to x_in - x_out * w[n] (upper)
\* and x_out * iw[n] - x_in (lower) on the expanded x =
\* from_reduced_to_aliases(r), and into a zeroed buffer writes that
\* constraint's gradient in reduced coordinates; r is never indexed with
\* the edge indices of the full space.
C29_RangeOnExpanded ==
    (pc = "optimizing" /\ solver = "global" /\ Reduced /\ global_shaping
        /\ hist.req.set /\ hist.req.fn \in {"urange", "lrange"}
        /\ ~Dangling(aliases, aliasToRed)) =>
        LET node == nodes[hist.req.arg]
            upper == hist.req.fn = "urange"
            x == from_reduced_to_aliases(hist.req.x, Size(cdata), aliases, aliasToRed, 0)
        IN  /\ hist.resp.val = IF upper THEN global_urange_constraint(x, node)
                                        ELSE global_lrange_constraint(x, node)
            /\ (hist.req.wg /\ hist.req.prior = Zeros(Size(hist.req.x))) =>
                hist.resp.grad =
                    from_aliases_to_reduced(RangeGradient(node, upper), hist.req.x,
                                            aliases, aliasToRed)

\* the analytic gradient of rs_sampling at ns and, doubled and times the
\* step, its central difference
GradAna(ns) == rs_sampling(ns, Zeros(Size(ns)), TRUE).grad
GradNum2(ns, i, eps) ==
    rs_sampling([ns EXCEPT ![i] = @ + eps], Zeros(0), FALSE).val
    - rs_sampling([ns EXCEPT ![i] = @ - eps], Zeros(0), FALSE).val

\* |grad_ana[i] - grad_num[i]| / max(|grad_ana[i]|, 1e-8) for an entry whose
\* analytic gradient is not below the resolution of the model
RelErrAt(ns, i, eps) ==
    Rat(Abs(GradAna(ns)[i] * 2 * eps - GradNum2(ns, i, eps)),
        2 * eps * Max2(Abs(GradAna(ns)[i]), 1))

RECURSIVE MaxRelErr(_, _, _)
MaxRelErr(i, ns, eps) ==
    IF i >= Size(ns) THEN Rat(0, 1)
    ELSE RatMax(RelErrAt(ns, i, eps), MaxRelErr(i + 1, ns, eps))

\* no entry with a vanishing analytic gradient is in error (for such an
\* entry the quotient by 1e-8 is beyond the model's numbers)
NoTinyEntry(ns, eps) ==
    \A i \in DOMAIN ns :
        GradAna(ns)[i] = 0 => GradNum2(ns, i, eps) = 0

\* C30: the relative error the gradient checker reports is the largest
\* |grad_ana[i] - grad_num[i]| / max(|grad_ana[i]|, 1e-8), grad_num being
\* the central difference: entries with a negative analytic gradient are
\* normalised by its magnitude, like positive ones.  (Stated of the last
\* check_gradient call while the options it was made under still stand.)
C30_RelativeError ==
    (solver = "shortrow" /\ hist.req.set /\ hist.req.fn = "check_gradient"
        /\ pc = "setup"
        /\ hist.req.circular = circular /\ hist.req.simp_L2 = simp_L2
        /\ NoTinyEntry(cdata, hist.req.arg) /\ NoTinyEntry(nvars, hist.req.arg)) =>
        RatEq(hist.resp.err,
              RatMax(MaxRelErr(0, cdata, hist.req.arg), MaxRelErr(0, nvars, hist.req.arg)))

====
